---- MODULE Spec2Model ----
(***************************************************************************)
(* MODBUS over serial line (RTU): the frame receiver and its               *)
(* resynchronisation, the master's SndRcv exchange and the slave's run     *)
(* loop, over a deadline-capable byte stream.                              *)
(*                                                                         *)
(* Go byte slices are sequences of 0..255; Go's zero-based b[i] is         *)
(* At(b, i).  Every blocking Read or Write of the byte stream is one step. *)
(***************************************************************************)
EXTENDS Integers, Sequences, FiniteSets, TLC

(***************************************************************************)
(* Bounds of the model                                                     *)
(***************************************************************************)
\* largest value of the master's Retrans field that is explored
MaxRetrans == 2
\* calls of SndRcv (master) or of the receiver's methods (direct use)
MaxCalls == 2
\* frames put on the stream back to back when the receiver is used directly
MaxFrames == 2
\* SerReceiverRTU.SyncDelay and SerReceiverRTU.SyncWaitMax, in clock ticks
SyncDelay == 1
SyncWaitMax == 2
\* most bytes (ResRdInputs.BitStat) or registers (ResRdRegs.Val) in a packed response
MaxData == 2

\* counters in the slice (the slave's has SlvCntNum = 8)
MaxCnt == 2

\* calls of Inc
MaxIncs == 2

\* longest frame prefix handed to a sizer used alone
MaxPrefix == 12

\* longest prefix of a packed example handed to Unpack
MaxUnpack == 8

(***************************************************************************)
(* Program constants                                                       *)
(***************************************************************************)
MaxSerADU == 256
SerCRCSz == 2
ExcFlag == 128
SerHeadSz == 1
\* exception codes
BadFnCode == 1
BadValue == 3
SrvFail == 4
RdCoils == 1
RdInputs == 2
RdHoldingRegs == 3
RdInputRegs == 4
WrCoil == 5
WrReg == 6
RdExcStatus == 7
Diag == 8
GetComCnt == 11
GetComLog == 12
WrCoils == 15
WrRegs == 16
SlaveId == 17
RdFileRec == 20
WrFileRec == 21
MskWrReg == 22
RdWrRegs == 23
RdFIFO == 24
RdDevId == 43
\* size of the scratch buffer of Sync
SyncBufSz == 16
\* CRC-16/MODBUS: reflected polynomial and initial value
Poly == 40961
CrcInit == 65535

Min(a, b) == IF a < b THEN a ELSE b

\* Go's b[i]
At(b, i) == b[i + 1]

\* Go's b[:n]
Take(b, n) == SubSeq(b, 1, n)

\* Go's b[n:]
Drop(b, n) == SubSeq(b, n + 1, Len(b))

\* bit k of a ^ b, in its place (w is 2^k)
XorBit(a, b, w) == (((a \div w) + (b \div w)) % 2) * w

\* a ^ b, for 16-bit a and b
Xor(a, b) ==
    XorBit(a, b, 1) + XorBit(a, b, 2) + XorBit(a, b, 4) + XorBit(a, b, 8)
    + XorBit(a, b, 16) + XorBit(a, b, 32) + XorBit(a, b, 64) + XorBit(a, b, 128)
    + XorBit(a, b, 256) + XorBit(a, b, 512) + XorBit(a, b, 1024) + XorBit(a, b, 2048)
    + XorBit(a, b, 4096) + XorBit(a, b, 8192) + XorBit(a, b, 16384) + XorBit(a, b, 32768)

\* x & ExcFlag != 0
HasExcFlag(x) == (x \div ExcFlag) % 2 = 1

RECURSIVE CrcShift(_, _)
\* k shift steps of the reflected CRC register
CrcShift(c, k) ==
    IF k = 0 THEN c
    ELSE IF c % 2 = 1 THEN CrcShift(Xor(c \div 2, Poly), k - 1)
    ELSE CrcShift(c \div 2, k - 1)

\* a ^ b for bytes
XorByte == [a \in 0 .. 255 |-> [b \in 0 .. 255 |-> Xor(a, b)]]

\* the table of the CRC: entry i is the register after the byte i is shifted in
CrcTable == [i \in 0 .. 255 |-> CrcShift(i, 8)]

RECURSIVE CrcUpdate(_, _)
\* crc = tab[byte(crc) ^ b] ^ (crc >> 8), for every byte b of data
\* (the bytes are taken in order, by halves: the register after the first
\* half is a value before the second half starts, so that a long frame does
\* not nest the evaluation as deep as it is long)
CrcUpdate(c, data) ==
    IF Len(data) = 0 THEN c
    ELSE IF Len(data) = 1
    THEN LET t == CrcTable[XorByte[c % 256][Head(data)]]
         IN  256 * (t \div 256) + XorByte[c \div 256][t % 256]
    ELSE CHOOSE r \in {CrcUpdate(m, d) :
                          m \in {CrcUpdate(c, SubSeq(data, 1, Len(data) \div 2))},
                          d \in {SubSeq(data, Len(data) \div 2 + 1, Len(data))}} : TRUE

\* crc16.Checksum(crc16.Modbus, data)
Checksum(data) == CrcUpdate(CrcInit, data)

\* SerADU.Node
Node(a) == At(a, 0)

\* SerADU.CRC: the stored CRC, low byte first
CRC(a) == At(a, Len(a) - 2) + 256 * At(a, Len(a) - 1)

\* SerADU.CheckCRC
CheckCRC(a) == CRC(a) = Checksum(Take(a, Len(a) - 2))

\* SerAddCRC
SerAddCRC(b) == b \o <<Checksum(b) % 256, Checksum(b) \div 256>>

(***************************************************************************)
(* Errors                                                                  *)
(***************************************************************************)
\* IsTimeout taking every error for a timeout
IsTimeout_any(e) == e # "nil"

\* IsTimeout, for the errors of the byte stream and of the receiver
IsTimeout(e) == e \in {"timeout", "ErrTimeout"}

\* wErrIO: wrap a byte-stream error in ErrIO, keeping its cause
wErrIO(e) ==
    CASE e = "EIO" -> "ErrIO(EIO)"
      [] e = "EPIPE" -> "ErrIO(EPIPE)"
      [] e = "timeout" -> "ErrIO(timeout)"
      [] OTHER -> e

\* err.(*ErrIO)
IsErrIO(e) == e \in {"ErrIO(EIO)", "ErrIO(EPIPE)", "ErrIO(timeout)"}

(***************************************************************************)
(* Frame sizers.  A sizer is its memoized size sz; size returns the bytes  *)
(* remaining, ok, the new sz, and fault when the Go code indexes past the  *)
(* end of b (a run-time panic).                                            *)
(***************************************************************************)
\* SizeKnown with the frame size taken one byte too long
SizeKnown_long(s, b) == [remain |-> s + 1 - Len(b), ok |-> TRUE, sz |-> s + 1, fault |-> FALSE]

\* the size of the frame is s: return s - len(b), true
SizeKnown(s, b) == [remain |-> s - Len(b), ok |-> TRUE, sz |-> s, fault |-> FALSE]

\* SizeNeed asking for one byte too many
SizeNeed_long(k, b) == [remain |-> k + 1 - Len(b), ok |-> TRUE, sz |-> 0, fault |-> FALSE]

\* the size is not known yet, b must grow to k bytes: return k - len(b), true
SizeNeed(k, b) == [remain |-> k - Len(b), ok |-> TRUE, sz |-> 0, fault |-> FALSE]

\* an unsupported function code taken for a frame that is complete
SizeUnsupported_ok == [remain |-> 0, ok |-> TRUE, sz |-> 0, fault |-> FALSE]

SizeUnsupported == [remain |-> 0, ok |-> FALSE, sz |-> 0, fault |-> FALSE]

SizeFault == [remain |-> 0, ok |-> FALSE, sz |-> 0, fault |-> TRUE]

\* resSizer.size
resSizer_size(s, b) ==
    IF s # 0 THEN SizeKnown(s, b)
    ELSE IF Len(b) < 5 THEN SizeNeed(5, b)
    ELSE IF HasExcFlag(At(b, 1)) THEN SizeKnown(3 + SerCRCSz, b)
    ELSE IF At(b, 1) \in {RdCoils, RdInputs, RdHoldingRegs, RdInputRegs, RdWrRegs,
                          RdFileRec, WrFileRec, GetComLog, SlaveId}
         THEN SizeKnown(At(b, 2) + 3 + SerCRCSz, b)
    ELSE IF At(b, 1) \in {WrCoil, WrReg, WrCoils, WrRegs, GetComCnt}
         THEN SizeKnown(6 + SerCRCSz, b)
    ELSE IF At(b, 1) = MskWrReg THEN SizeKnown(8 + SerCRCSz, b)
    ELSE IF At(b, 1) = RdExcStatus THEN SizeKnown(3 + SerCRCSz, b)
    ELSE IF At(b, 1) = RdFIFO
         THEN SizeKnown(At(b, 2) * 256 + At(b, 3) + 3 + SerCRCSz, b)
    ELSE SizeUnsupported

\* reqSizer.size
reqSizer_size(s, b) ==
    IF s # 0 THEN SizeKnown(s, b)
    ELSE IF Len(b) < 2 THEN SizeNeed(2, b)
    ELSE IF At(b, 1) \in {RdCoils, RdInputs, RdHoldingRegs, RdInputRegs, WrCoil, WrReg}
         THEN SizeKnown(6 + SerCRCSz, b)
    ELSE IF At(b, 1) \in {RdExcStatus, GetComCnt, GetComLog, SlaveId}
         THEN SizeKnown(2 + SerCRCSz, b)
    ELSE IF At(b, 1) \in {WrCoils, WrRegs}
         THEN IF Len(b) < 7 THEN SizeNeed(7, b)
              ELSE SizeKnown(At(b, 6) + 7 + SerCRCSz, b)
    ELSE IF At(b, 1) \in {RdFileRec, WrFileRec}
         THEN IF Len(b) < 3 THEN SizeNeed(3, b)
              ELSE SizeKnown(At(b, 2) + 3 + SerCRCSz, b)
    ELSE IF At(b, 1) = MskWrReg THEN SizeKnown(8 + SerCRCSz, b)
    ELSE IF At(b, 1) = RdWrRegs
         THEN IF Len(b) < 10 THEN SizeNeed(10, b)
              ELSE IF Len(b) < 11 THEN SizeFault
              ELSE SizeKnown(At(b, 10) + 11 + SerCRCSz, b)
    ELSE IF At(b, 1) = RdFIFO THEN SizeKnown(4 + SerCRCSz, b)
    ELSE IF At(b, 1) = RdDevId THEN SizeKnown(5 + SerCRCSz, b)
    ELSE SizeUnsupported

\* sizer.size, for the sizer that ReceiveReq or ReceiveRes hands to receive
size(k, s, b) == IF k = "req" THEN reqSizer_size(s, b) ELSE resSizer_size(s, b)

(***************************************************************************)
(* Frames used as inputs                                                   *)
(***************************************************************************)
\* SerPack(nil, 1, &ReqRdInputs{Coils: true, Addr: 0x13, Num: 0x13})
ReqRdCoilsADU == SerAddCRC(<<1, RdCoils, 0, 19, 0, 19>>)

\* SerPack(nil, 0, &ReqResWrCoil{Addr: 0xac, Status: true}): a broadcast
ReqBroadcastADU == SerAddCRC(<<0, WrCoil, 0, 172, 255, 0>>)

\* SerPack(nil, 1, &ResRdInputs{Coils: true, BitStat: {0xcd, 0x6b, 0x05}})
ResRdCoilsADU == SerAddCRC(<<1, RdCoils, 3, 205, 107, 5>>)

\* SerPack(nil, 1, &ResExc{Function: RdCoils, ExCode: BadFnCode})
ResExcADU == SerAddCRC(<<1, RdCoils + ExcFlag, 1>>)

\* a read-coils response whose CRC bytes were damaged on the line
ResBadCrcADU == <<1, RdCoils, 1, 5, 0, 0>>

\* a frame with a function code (Diag) that neither sizer supports
DiagADU == SerAddCRC(<<1, Diag, 0, 0, 0, 0>>)

\* a response header announcing 255 data bytes: 260 bytes in all
ResOversizeADU == <<1, RdHoldingRegs, 255, 0, 0>>

\* the b that a caller hands to SndRcv, ReceiveReq or ReceiveRes: nil, or a
\* slice that already holds data
CallerBufs == {<<>>, <<170>>}

(***************************************************************************)
(* Packers.  A request or response value is a record tagged with its Go    *)
(* type in t; Pack returns [b, err].                                       *)
(***************************************************************************)
\* pU16s: append 16-bit words, high byte first
pU16s(b, ws) ==
    b \o [k \in 1 .. 2 * Len(ws) |->
            IF k % 2 = 1 THEN ws[(k + 1) \div 2] \div 256 ELSE ws[k \div 2] % 256]

\* byte(r.Function)|ExcFlag
OrExcFlag(fn) == IF HasExcFlag(fn) THEN fn ELSE fn + ExcFlag

PackOk(b) == [b |-> b, err |-> "nil"]

PackErr(b) == [b |-> b, err |-> "errPack"]

\* (*ResExc).Pack
ResExc_Pack(r, b) == PackOk(b \o <<OrExcFlag(r.Function), r.ExCode>>)

\* (*ReqRdInputs).Pack
ReqRdInputs_Pack(r, b) ==
    IF r.Num < 1 \/ r.Num > 2000 THEN PackErr(b)
    ELSE PackOk(pU16s(b \o <<IF r.Coils THEN RdCoils ELSE RdInputs>>, <<r.Addr, r.Num>>))

\* (*ResRdInputs).Pack
ResRdInputs_Pack(r, b) ==
    LET n == Len(r.BitStat)
    IN  IF n < 1 \/ n > 250 THEN PackErr(b)
        ELSE PackOk(b \o <<IF r.Coils THEN RdCoils ELSE RdInputs, n % 256>> \o r.BitStat)

\* (*ReqRdRegs).Pack
ReqRdRegs_Pack(r, b) ==
    IF r.Num < 1 \/ r.Num > 125 THEN PackErr(b)
    ELSE PackOk(pU16s(b \o <<IF r.Holding THEN RdHoldingRegs ELSE RdInputRegs>>,
                      <<r.Addr, r.Num>>))

\* (*ResRdRegs).Pack
ResRdRegs_Pack(r, b) ==
    LET n == Len(r.Val)
    IN  IF n < 1 \/ n > 125 THEN PackErr(b)
        ELSE PackOk(pU16s(b \o <<IF r.Holding THEN RdHoldingRegs ELSE RdInputRegs,
                                  (n * 2) % 256>>, r.Val))

\* (*ReqResWrReg).Pack
ReqResWrReg_Pack(r, b) == PackOk(pU16s(b \o <<WrReg>>, <<r.Addr, r.Val>>))

\* (*ReqResWrCoil).Pack
ReqResWrCoil_Pack(r, b) ==
    PackOk(pU16s(b \o <<WrCoil>>, <<r.Addr, IF r.Status THEN 65280 ELSE 0>>))

\* rr.Pack(b), by the dynamic type of rr
Pack(r, b) ==
    CASE r.t = "ResExc" -> ResExc_Pack(r, b)
      [] r.t = "ReqRdInputs" -> ReqRdInputs_Pack(r, b)
      [] r.t = "ResRdInputs" -> ResRdInputs_Pack(r, b)
      [] r.t = "ReqRdRegs" -> ReqRdRegs_Pack(r, b)
      [] r.t = "ResRdRegs" -> ResRdRegs_Pack(r, b)
      [] r.t = "ReqResWrReg" -> ReqResWrReg_Pack(r, b)
      [] r.t = "ReqResWrCoil" -> ReqResWrCoil_Pack(r, b)

\* SerPack storing the CRC high byte first
SerPack_hi(b, node, rr) ==
    LET p == Pack(rr, b \o <<node>>)
        c == Checksum(Drop(p.b, Len(b)))
    IN  IF p.err # "nil" THEN [b |-> b, err |-> p.err]
        ELSE [b |-> p.b \o <<c \div 256, c % 256>>, err |-> "nil"]

\* SerPack(b, node, rr): on error b is returned unaffected
SerPack(b, node, rr) ==
    LET p == Pack(rr, b \o <<node>>)
    IN  IF p.err # "nil" THEN [b |-> b, err |-> p.err]
        ELSE [b |-> b \o SerAddCRC(Drop(p.b, Len(b))), err |-> "nil"]

\* SerADU.FnCode
FnCode(a) ==
    IF HasExcFlag(At(a, SerHeadSz)) THEN At(a, SerHeadSz) - ExcFlag ELSE At(a, SerHeadSz)

\* NewReq: a fresh request value for function code f
NewReq(f) ==
    CASE f = RdInputs ->
           [r |-> [t |-> "ReqRdInputs", Coils |-> FALSE, Addr |-> 0, Num |-> 0], err |-> "nil"]
      [] f = RdCoils ->
           [r |-> [t |-> "ReqRdInputs", Coils |-> TRUE, Addr |-> 0, Num |-> 0], err |-> "nil"]
      [] f = WrCoil ->
           [r |-> [t |-> "ReqResWrCoil", Addr |-> 0, Status |-> FALSE], err |-> "nil"]
      [] f = RdInputRegs ->
           [r |-> [t |-> "ReqRdRegs", Holding |-> FALSE, Addr |-> 0, Num |-> 0], err |-> "nil"]
      [] f = RdHoldingRegs ->
           [r |-> [t |-> "ReqRdRegs", Holding |-> TRUE, Addr |-> 0, Num |-> 0], err |-> "nil"]
      [] f = WrReg ->
           [r |-> [t |-> "ReqResWrReg", Addr |-> 0, Val |-> 0], err |-> "nil"]
      [] f \in {WrCoils, WrRegs, MskWrReg, RdWrRegs, RdFIFO, RdFileRec, WrFileRec,
                RdExcStatus, Diag, GetComCnt, GetComLog, SlaveId, RdDevId} ->
           [r |-> [t |-> "nil"], err |-> "errFnUnsup"]
      [] OTHER -> [r |-> [t |-> "nil"], err |-> "errFnCode"]

\* the word at b[i], b[i+1] read low byte first
uU16_le(b, i) == At(b, i) + 256 * At(b, i + 1)

\* uU16s, one word: the big-endian word at b[i], b[i+1]
uU16(b, i) == At(b, i) * 256 + At(b, i + 1)

\* Unpack results: the value, b advanced, and err; "panic" when the Go code
\* indexes or slices b past its end
UnpackOk(r, b) == [r |-> r, b |-> b, err |-> "nil"]

UnpackErr(r, b) == [r |-> r, b |-> b, err |-> "errUnpack"]

UnpackFault(r, b) == [r |-> r, b |-> b, err |-> "panic"]

\* (*ReqRdInputs).Unpack
ReqRdInputs_Unpack(r, b) ==
    IF Len(b) < 5 THEN UnpackErr(r, b)
    ELSE IF At(b, 0) \notin {RdInputs, RdCoils} THEN UnpackErr(r, b)
    ELSE UnpackOk([r EXCEPT !.Coils = (At(b, 0) = RdCoils),
                            !.Addr = uU16(b, 1), !.Num = uU16(b, 3)], Drop(b, 5))

\* (*ReqRdRegs).Unpack
ReqRdRegs_Unpack(r, b) ==
    IF Len(b) < 5 THEN UnpackErr(r, b)
    ELSE IF At(b, 0) \notin {RdHoldingRegs, RdInputRegs} THEN UnpackErr(r, b)
    ELSE UnpackOk([r EXCEPT !.Holding = (At(b, 0) = RdHoldingRegs),
                            !.Addr = uU16(b, 1), !.Num = uU16(b, 3)], Drop(b, 5))

\* (*ReqResWrReg).Unpack
ReqResWrReg_Unpack(r, b) ==
    IF Len(b) < 1 THEN UnpackFault(r, b)
    ELSE IF At(b, 0) # WrReg THEN UnpackErr(r, b)
    ELSE IF Len(b) < 5 THEN UnpackFault(r, b)
    ELSE UnpackOk([r EXCEPT !.Addr = uU16(b, 1), !.Val = uU16(b, 3)], Drop(b, 5))

\* (*ReqResWrCoil).Unpack
ReqResWrCoil_Unpack(r, b) ==
    IF Len(b) < 1 THEN UnpackFault(r, b)
    ELSE IF At(b, 0) # WrCoil THEN UnpackErr(r, b)
    ELSE IF Len(b) < 5 THEN UnpackFault(r, b)
    ELSE IF uU16(b, 3) \notin {65280, 0} THEN UnpackErr([r EXCEPT !.Addr = uU16(b, 1)], b)
    ELSE UnpackOk([r EXCEPT !.Addr = uU16(b, 1), !.Status = (uU16(b, 3) = 65280)],
                  Drop(b, 5))

\* uU16s over n bytes of b: the big-endian words, in order
uU16s(b, n) == [k \in 1 .. (n + 1) \div 2 |-> uU16(b, 2 * (k - 1))]

\* (*ResExc).Unpack
ResExc_Unpack(r, b) ==
    IF Len(b) < 2 THEN UnpackErr(r, b)
    ELSE UnpackOk([r EXCEPT !.Function = IF HasExcFlag(At(b, 0)) THEN At(b, 0) - ExcFlag
                                         ELSE At(b, 0),
                            !.ExCode = At(b, 1)], Drop(b, 2))

\* (*ResRdInputs).Unpack: b[2:2+n] is not checked against len(b)
ResRdInputs_Unpack(r, b) ==
    IF Len(b) < 3 THEN UnpackErr(r, b)
    ELSE IF At(b, 0) \notin {RdInputs, RdCoils} THEN UnpackErr(r, b)
    ELSE LET r1 == [r EXCEPT !.Coils = (At(b, 0) = RdCoils)]
             n == At(b, 1)
         IN  IF n < 1 \/ n > 250 THEN UnpackErr(r1, b)
             ELSE IF Len(b) < 2 + n THEN UnpackFault(r1, b)
             ELSE UnpackOk([r1 EXCEPT !.BitStat = SubSeq(b, 3, 2 + n)], Drop(b, 2 + n))

\* (*ResRdRegs).Unpack
ResRdRegs_Unpack(r, b) ==
    IF Len(b) < 3 THEN UnpackErr(r, b)
    ELSE IF At(b, 0) \notin {RdHoldingRegs, RdInputRegs} THEN UnpackErr(r, b)
    ELSE LET r1 == [r EXCEPT !.Holding = (At(b, 0) = RdHoldingRegs)]
             n == At(b, 1)
         IN  IF n < 2 \/ n > 250 \/ n % 2 # 0 THEN UnpackErr(r1, b)
             ELSE IF Len(b) - 2 < n THEN UnpackErr(r1, b)
             ELSE UnpackOk([r1 EXCEPT !.Val = uU16s(Drop(b, 2), n)], Drop(b, 2 + n))

\* NewRes: a fresh response value for function code f
NewRes(f) ==
    CASE HasExcFlag(f) ->
           [r |-> [t |-> "ResExc", Function |-> 0, ExCode |-> 0], err |-> "nil"]
      [] f = RdInputs ->
           [r |-> [t |-> "ResRdInputs", Coils |-> FALSE, BitStat |-> <<>>], err |-> "nil"]
      [] f = RdCoils ->
           [r |-> [t |-> "ResRdInputs", Coils |-> TRUE, BitStat |-> <<>>], err |-> "nil"]
      [] f = WrCoil ->
           [r |-> [t |-> "ReqResWrCoil", Addr |-> 0, Status |-> FALSE], err |-> "nil"]
      [] f = RdInputRegs ->
           [r |-> [t |-> "ResRdRegs", Holding |-> FALSE, Val |-> <<>>], err |-> "nil"]
      [] f = RdHoldingRegs ->
           [r |-> [t |-> "ResRdRegs", Holding |-> TRUE, Val |-> <<>>], err |-> "nil"]
      [] f = WrReg ->
           [r |-> [t |-> "ReqResWrReg", Addr |-> 0, Val |-> 0], err |-> "nil"]
      [] f \in {WrCoils, WrRegs, MskWrReg, RdWrRegs, RdFIFO, RdFileRec, WrFileRec,
                RdExcStatus, Diag, GetComCnt, GetComLog, SlaveId, RdDevId} ->
           [r |-> [t |-> "nil"], err |-> "errFnUnsup"]
      [] OTHER -> [r |-> [t |-> "nil"], err |-> "errFnCode"]

\* rr.FnCode(), by the dynamic type of rr
ReqRes_FnCode(r) ==
    CASE r.t = "ResExc" -> r.Function
      [] r.t \in {"ReqRdInputs", "ResRdInputs"} -> IF r.Coils THEN RdCoils ELSE RdInputs
      [] r.t \in {"ReqRdRegs", "ResRdRegs"} -> IF r.Holding THEN RdHoldingRegs ELSE RdInputRegs
      [] r.t = "ReqResWrReg" -> WrReg
      [] r.t = "ReqResWrCoil" -> WrCoil

\* req.Unpack(b), by the dynamic type of req
Unpack(r, b) ==
    CASE r.t = "ResExc" -> ResExc_Unpack(r, b)
      [] r.t = "ResRdInputs" -> ResRdInputs_Unpack(r, b)
      [] r.t = "ResRdRegs" -> ResRdRegs_Unpack(r, b)
      [] r.t = "ReqRdInputs" -> ReqRdInputs_Unpack(r, b)
      [] r.t = "ReqRdRegs" -> ReqRdRegs_Unpack(r, b)
      [] r.t = "ReqResWrReg" -> ReqResWrReg_Unpack(r, b)
      [] r.t = "ReqResWrCoil" -> ReqResWrCoil_Unpack(r, b)

\* the data of a packed response: 1 .. MaxData bytes or registers
DataSeqs(v) == {[i \in 1 .. n |-> v] : n \in 1 .. MaxData}

\* the values that are packed, as in packTestData: req tells a request from
\* a response, r is the value
packTestData ==
    {[req |-> FALSE, r |-> [t |-> "ResExc", Function |-> RdCoils, ExCode |-> 1]]}
    \cup {[req |-> TRUE, r |-> [t |-> "ReqRdInputs", Coils |-> c, Addr |-> 19, Num |-> n]] :
             c \in BOOLEAN, n \in {0, 19}}
    \cup {[req |-> FALSE, r |-> [t |-> "ResRdInputs", Coils |-> c, BitStat |-> d]] :
             c \in BOOLEAN, d \in DataSeqs(205)}
    \cup {[req |-> TRUE, r |-> [t |-> "ReqRdRegs", Holding |-> h, Addr |-> 107, Num |-> 3]] :
             h \in BOOLEAN}
    \cup {[req |-> FALSE, r |-> [t |-> "ResRdRegs", Holding |-> h, Val |-> d]] :
             h \in BOOLEAN, d \in DataSeqs(555)}
    \cup {[req |-> q, r |-> [t |-> "ReqResWrCoil", Addr |-> 172, Status |-> TRUE]] :
             q \in BOOLEAN}
    \cup {[req |-> q, r |-> [t |-> "ReqResWrReg", Addr |-> 172, Val |-> 57005]] :
             q \in BOOLEAN}

(***************************************************************************)
(* State                                                                   *)
(***************************************************************************)
VARIABLES
    role,      \* how the package is used: "master", "slave", "rcv" (the receiver
               \* alone), "sizer" (a sizer alone, fed the prefixes of a packed frame),
               \* "api" (the master's constructor and Do), "codec" (packers and
               \* ADU conversions alone), "counters" (the counters alone) or "sizers"
               \* (a fresh sizer asked about one prefix)
    wire,      \* byte stream: the bytes the line delivers to the next reads, in order
    closed,    \* byte stream: closed, every read and write fails
    rdl,       \* byte stream: the read deadline in force: "none", "caller", "frame", "sync"
    pc,        \* position of the driver: "idle", "sync", "transmit", "receive", "size",
               \* "stopped", "crashed"
    rcv,       \* locals of the running receive or Sync: kind, fr, sz, nrem, elapsed
    cb,        \* the byte slice b of the call in progress
    synced,    \* SerMaster.synced / SerSlave.synced
    Retrans,   \* SerMaster.Retrans
    try,       \* SndRcv: loop counter
    err,       \* SndRcv / run: the local err
    req,       \* SndRcv: the request ADU
    NodeId,    \* SerSlave.NodeId
    handler,   \* SerSlave: "none" (both handlers nil), "raw" (only HandlerRaw set) or
               \* "std" (Handler set)
    cnt,       \* SerSlave.cnt: the counter SlvCntErrCRC
    ret,       \* what the last completed call returned: [b, err]
    ncalls,    \* calls started so far
    trace,     \* SndRcv: the Sync, Transmit and ReceiveRes calls it made, with results;
               \* run: the calls it made since its last ReceiveReq returned, that
               \* one first, as <<call, result, bytes or arguments>>
    rdSync,    \* the call in progress read the stream inside Sync
    rdRecv,    \* the call in progress read the stream inside ReceiveReq/ReceiveRes
    rdErr,     \* the error the last Read of the stream returned ("none" before any)
    needSync,  \* a receive failed with ErrFrame or ErrCRC and no Sync succeeded since
    sent,      \* receiver alone: the frames put on the stream, [dir, adu, valid];
               \* slave: the frames that others put on the bus, one after the other
    got,       \* receiver alone: frames received so far; slave: frames put on the bus
    clean,     \* receiver alone: every call so far matched the next frame and succeeded
    val,       \* a library call outside the drivers: its name and arguments
    out,       \* what that call returned
    ca,        \* counters.ca
    mu,        \* counters.Mutex: 0 when free, else the goroutine that holds it
    thr,       \* the goroutines using the counters: the call each is in, its
               \* position in it and its locals
    inc        \* per counter, the Inc calls that returned since its last reset

vars == <<role, wire, closed, rdl, pc, rcv, cb, synced, Retrans, try, err, req,
          NodeId, handler, cnt, ret, ncalls, trace, rdSync, rdRecv, rdErr, needSync,
          sent, got, clean, val, out, ca, mu, thr, inc>>

\* no receive or Sync is running
RcvIdle == [kind |-> "none", fr |-> <<>>, sz |-> 0, nrem |-> 0, elapsed |-> 0]

NoRet == [b |-> <<>>, err |-> "none"]

(***************************************************************************)
(* Byte stream (DeadlineReader).  wire holds the bytes that are arriving;  *)
(* bytes that arrive later are appended by the environment.  Read(p)       *)
(* returns (n, e): n bytes, at most len(p) and at most what is arriving,   *)
(* with e = "nil"; or, with a deadline in force and nothing more arriving, *)
(* the last bytes with e = "timeout".  A closed stream returns (0, "EIO"). *)
(***************************************************************************)
\* Read returning bytes past the end of p
ReadOutcomes_uncapped(k) ==
    IF closed THEN {<<0, "EIO">>}
    ELSE {<<n, "nil">> : n \in 0 .. Len(wire)}
         \cup (IF rdl # "none" THEN {<<Len(wire), "timeout">>} ELSE {})

ReadOutcomes(k) ==
    IF closed THEN {<<0, "EIO">>}
    ELSE {<<n, "nil">> : n \in 0 .. Min(k, Len(wire))}
         \cup (IF rdl # "none" /\ Len(wire) <= k THEN {<<Len(wire), "timeout">>} ELSE {})

(***************************************************************************)
(* SerReceiverRTU                                                          *)
(***************************************************************************)
\* receive, up to the first Read: a fresh sizer, nrem, _ := sz.size(fr)
receive_begin(k) ==
    [kind |-> k, fr |-> <<>>, sz |-> 0, nrem |-> size(k, 0, <<>>).remain, elapsed |-> 0]

\* receive: one iteration of the read loop, after Read returned n bytes (the
\* first n of w) and e.  res is "more" (loop again), "nil" (fr is the ADU),
\* the error returned, or "panic".
receive_iter(r, n, e, w) ==
    LET fr1 == r.fr \o Take(w, n)
        s == size(r.kind, r.sz, fr1)
        r1 == [r EXCEPT !.fr = fr1, !.sz = s.sz, !.nrem = s.remain]
    IN  IF s.fault THEN [res |-> "panic", rcv |-> r1]
        ELSE IF ~s.ok THEN [res |-> "ErrFrame", rcv |-> r1]
        ELSE IF s.remain = 0
             THEN IF CheckCRC(fr1) THEN [res |-> "nil", rcv |-> r1]
                  ELSE [res |-> "ErrCRC", rcv |-> r1]
        ELSE IF e # "nil"
             THEN IF IsTimeout(e) THEN [res |-> "ErrTimeout", rcv |-> r1]
                  ELSE [res |-> wErrIO(e), rcv |-> r1]
        ELSE IF s.remain < 0 \/ s.remain > MaxSerADU - Len(fr1)
             THEN [res |-> "panic", rcv |-> r1]
        ELSE [res |-> "more", rcv |-> r1]

\* receive_return with the frame appended to b before its CRC is checked
receive_return_early(b, fr, res) == IF res \in {"nil", "ErrCRC"} THEN b \o fr ELSE b

\* receive: the byte slice returned along with res: append(b, a...) when the
\* frame fr is received and its CRC holds, else b
receive_return(b, fr, res) == IF res = "nil" THEN b \o fr ELSE b

\* Sync, up to the first Read: tend := time.Now().Add(rcv.SyncWaitMax)
Sync_begin == [RcvIdle EXCEPT !.kind = "sync"]

\* Sync_iter taking every Read error for the expiry of the probe
Sync_iter_anyerr(r, e, dt) ==
    LET r1 == [r EXCEPT !.elapsed = r.elapsed + dt]
    IN  IF e # "nil" THEN [res |-> "nil", rcv |-> r1]
        ELSE IF r1.elapsed > SyncWaitMax THEN [res |-> "ErrSync", rcv |-> r1]
        ELSE [res |-> "more", rcv |-> r1]

\* Sync_iter without the test against tend
Sync_iter_forever(r, e, dt) ==
    LET r1 == [r EXCEPT !.elapsed = r.elapsed + dt]
    IN  IF e # "nil"
        THEN IF ~IsTimeout(e) THEN [res |-> wErrIO(e), rcv |-> r1]
             ELSE [res |-> "nil", rcv |-> r1]
        ELSE [res |-> "more", rcv |-> r1]

\* Sync_iter giving up as soon as tend is reached
Sync_iter_ge(r, e, dt) ==
    LET r1 == [r EXCEPT !.elapsed = r.elapsed + dt]
    IN  IF e # "nil"
        THEN IF ~IsTimeout(e) THEN [res |-> wErrIO(e), rcv |-> r1]
             ELSE [res |-> "nil", rcv |-> r1]
        ELSE IF r1.elapsed >= SyncWaitMax THEN [res |-> "ErrSync", rcv |-> r1]
        ELSE [res |-> "more", rcv |-> r1]

\* Sync: one iteration of the probe loop, after Read returned e, dt ticks
\* after it was called.  elapsed is the time since Sync began.
Sync_iter(r, e, dt) ==
    LET r1 == [r EXCEPT !.elapsed = r.elapsed + dt]
    IN  IF e # "nil"
        THEN IF ~IsTimeout(e) THEN [res |-> wErrIO(e), rcv |-> r1]
             ELSE [res |-> "nil", rcv |-> r1]
        ELSE IF r1.elapsed > SyncWaitMax THEN [res |-> "ErrSync", rcv |-> r1]
        ELSE [res |-> "more", rcv |-> r1]

\* the time a probe read of Sync takes: the full SyncDelay when it times out
ProbeTimes(e) == IF e = "timeout" THEN {SyncDelay} ELSE 0 .. SyncDelay

\* what the drivers and the receiver never touch
lib == <<val, out, ca, mu, thr, inc>>

\* fields fixed at construction
cfg == <<role, Retrans, NodeId, handler, cnt, lib>>

\* bookkeeping of the direct use of the receiver
harness == <<sent, got, clean>>

(***************************************************************************)
(* The line.  Closing the stream is how a driver is cancelled.             *)
(***************************************************************************)
Close ==
    /\ role # "sizer"
    /\ ~closed
    /\ closed' = TRUE
    /\ UNCHANGED <<wire, rdl, pc, rcv, cb, synced, try, err, req, ret, ncalls,
                   trace, rdSync, rdRecv, rdErr, needSync, cfg, harness>>

(***************************************************************************)
(* SerTransmitter.Transmit: writes the ADU with a write deadline; returns  *)
(* the instant the transmission ends, or the Write's error wrapped in      *)
(* ErrIO.  A closed stream fails every write.                              *)
(***************************************************************************)
Transmit_results == IF closed THEN {wErrIO("EPIPE")} ELSE {"nil", wErrIO("EPIPE")}

\* what the addressed slave puts on the line after a request: its response,
\* a response cut short, a damaged or undecodable frame, or nothing
Responses == {<<>>, ResRdCoilsADU, Take(ResRdCoilsADU, 6), ResBadCrcADU, DiagADU,
              ResOversizeADU}

(***************************************************************************)
(* SerMaster.SndRcv                                                        *)
(***************************************************************************)
\* return b, err
SndRcv_return(bv, e) ==
    /\ pc' = "idle"
    /\ rcv' = RcvIdle
    /\ err' = e
    /\ ret' = [b |-> bv, err |-> e]
    /\ rdl' = rdl

\* SndRcv_loop with the loop test try >= 0
SndRcv_loop_ge(t, s, e, bv) ==
    /\ try' = t
    /\ IF t >= 0
       THEN /\ err' = e
            /\ ret' = NoRet
            /\ IF ~s
               THEN pc' = "sync" /\ rcv' = Sync_begin /\ rdl' = "sync"
               ELSE pc' = "transmit" /\ rcv' = RcvIdle /\ rdl' = rdl
       ELSE SndRcv_return(bv, e)

\* SndRcv_loop as the earlier SerMaster did it: ErrComm when the tries run out
SndRcv_loop_comm(t, s, e, bv) ==
    /\ try' = t
    /\ IF t > 0
       THEN /\ err' = e
            /\ ret' = NoRet
            /\ IF ~s
               THEN pc' = "sync" /\ rcv' = Sync_begin /\ rdl' = "sync"
               ELSE pc' = "transmit" /\ rcv' = RcvIdle /\ rdl' = rdl
       ELSE SndRcv_return(bv, "ErrComm")

\* for try := ...; try > 0: the loop test with t tries left, then the top of
\* the body: Sync when not synced (s), else Transmit; e is the local err
SndRcv_loop(t, s, e, bv) ==
    /\ try' = t
    /\ IF t > 0
       THEN /\ err' = e
            /\ ret' = NoRet
            /\ IF ~s
               THEN pc' = "sync" /\ rcv' = Sync_begin /\ rdl' = "sync"
               ELSE pc' = "transmit" /\ rcv' = RcvIdle /\ rdl' = rdl
       ELSE SndRcv_return(bv, e)

\* SndRcv_continue that leaves try as it is
SndRcv_continue_same(t, s, e, bv) == SndRcv_loop(t, s, e, bv)

\* continue: try--, then the loop test
SndRcv_continue(t, s, e, bv) == SndRcv_loop(t - 1, s, e, bv)

\* SndRcv_unsync clearing sm.synced after a timeout as well
SndRcv_unsync_all(e) == TRUE

\* SndRcv_unsync clearing sm.synced after an I/O error only
SndRcv_unsync_io(e) == IsErrIO(e)

\* a ReceiveRes error after which SndRcv clears sm.synced
SndRcv_unsync(e) == e \in {"ErrFrame", "ErrCRC"} \/ IsErrIO(e)

\* SndRcv_retry going on to the next try after an I/O error too
SndRcv_retry_io(e) == TRUE

\* a ReceiveRes error after which SndRcv goes on to the next try (continue)
SndRcv_retry(e) == e \in {"ErrFrame", "ErrCRC"} \/ ~IsErrIO(e)

\* SndRcv_broadcast that expects a response to every request
SndRcv_broadcast_never(rq) == FALSE

\* req.Node() == 0x0: broadcast, no response
SndRcv_broadcast(rq) == Node(rq) = 0

\* the call: SndRcv(req, b)
SndRcv ==
    /\ role = "master"
    /\ pc = "idle"
    /\ ncalls < MaxCalls
    /\ \E rq \in {ReqRdCoilsADU, ReqBroadcastADU}, b \in CallerBufs :
          /\ req' = rq
          /\ cb' = b
          /\ SndRcv_loop(Retrans + 1, synced, "nil", b)
    /\ ncalls' = ncalls + 1
    /\ trace' = <<>>
    /\ rdSync' = FALSE
    /\ rdRecv' = FALSE
    /\ UNCHANGED <<wire, closed, synced, rdErr, needSync, cfg, harness>>

\* sm.rcv.Sync(): one probe read
MstSyncRead ==
    /\ role = "master"
    /\ pc = "sync"
    /\ \E o \in ReadOutcomes(SyncBufSz) : \E dt \in ProbeTimes(o[2]) :
          LET r == Sync_iter(rcv, o[2], dt) IN
          /\ wire' = Drop(wire, o[1])
          /\ rdSync' = TRUE
          /\ rdErr' = o[2]
          /\ IF r.res = "more"
             THEN /\ rcv' = r.rcv
                  /\ UNCHANGED <<pc, rdl, synced, try, err, ret, trace, needSync>>
             ELSE /\ trace' = Append(trace, <<"Sync", r.res>>)
                  /\ IF r.res = "nil"
                     THEN /\ synced' = TRUE
                          /\ needSync' = FALSE
                          /\ pc' = "transmit"
                          /\ rcv' = RcvIdle
                          /\ err' = "nil"
                          /\ UNCHANGED <<rdl, try, ret>>
                     ELSE /\ SndRcv_return(cb, r.res)
                          /\ UNCHANGED <<synced, try, needSync>>
    /\ UNCHANGED <<closed, cb, req, ncalls, rdRecv, cfg, harness>>

\* sm.trx.Transmit(req), and what follows up to the first Read of ReceiveRes
MstTransmit ==
    /\ role = "master"
    /\ pc = "transmit"
    /\ \E e \in Transmit_results :
          /\ trace' = Append(trace, <<"Transmit", e>>)
          /\ IF e # "nil"
             THEN /\ synced' = FALSE
                  /\ SndRcv_return(cb, e)
                  /\ UNCHANGED <<wire, try>>
             ELSE IF SndRcv_broadcast(req)
             THEN /\ SndRcv_return(cb, e)
                  /\ UNCHANGED <<wire, synced, try>>
             ELSE /\ \E rs \in Responses : wire' = wire \o rs
                  /\ pc' = "receive"
                  /\ rcv' = receive_begin("res")
                  /\ rdl' = "caller"
                  /\ err' = e
                  /\ UNCHANGED <<synced, try, ret>>
    /\ UNCHANGED <<closed, cb, req, ncalls, rdSync, rdRecv, rdErr, needSync, cfg, harness>>

\* sm.rcv.ReceiveRes(b, deadline): one read; when it returns, the rest of the
\* loop body
MstReceiveRead ==
    /\ role = "master"
    /\ pc = "receive"
    /\ \E o \in ReadOutcomes(rcv.nrem) :
          LET r == receive_iter(rcv, o[1], o[2], wire) IN
          /\ wire' = Drop(wire, o[1])
          /\ rdRecv' = TRUE
          /\ rdErr' = o[2]
          /\ IF r.res = "more"
             THEN /\ rcv' = r.rcv
                  /\ rdl' = "frame"
                  /\ UNCHANGED <<pc, synced, try, err, ret, trace, needSync>>
             ELSE IF r.res = "panic"
             THEN /\ pc' = "crashed"
                  /\ rcv' = r.rcv
                  /\ UNCHANGED <<rdl, synced, try, err, ret, trace, needSync>>
             ELSE /\ trace' = Append(trace, <<"ReceiveRes", r.res>>)
                  /\ needSync' = (needSync \/ r.res \in {"ErrFrame", "ErrCRC"})
                  /\ IF r.res = "nil"
                     THEN /\ SndRcv_return(receive_return(cb, r.rcv.fr, r.res), r.res)
                          /\ UNCHANGED <<synced, try>>
                     ELSE /\ synced' = (synced /\ ~SndRcv_unsync(r.res))
                          /\ IF SndRcv_retry(r.res)
                             THEN SndRcv_continue(try, synced', r.res,
                                                  receive_return(cb, r.rcv.fr, r.res))
                             ELSE /\ SndRcv_return(receive_return(cb, r.rcv.fr, r.res), r.res)
                                  /\ try' = try
    /\ UNCHANGED <<closed, cb, req, ncalls, rdSync, cfg, harness>>

(***************************************************************************)
(* SerSlave.run                                                            *)
(***************************************************************************)
\* ss.reqBuf[:] and ss.resBuf[:]: the whole MaxSerADU-byte arrays, never written
reqBuf == [i \in 1 .. MaxSerADU |-> 0]

resBuf == [i \in 1 .. MaxSerADU |-> 0]

\* return err
run_return(e) ==
    /\ pc' = "stopped"
    /\ rcv' = RcvIdle
    /\ err' = e
    /\ ret' = [b |-> <<>>, err |-> e]
    /\ UNCHANGED <<rdl, cb>>

\* run_loop leaving the loop on a frame-level error
run_loop_strict(s, e) ==
    IF e \in {"ErrFrame", "ErrCRC", "ErrTimeout"} THEN run_return(e)
    ELSE /\ err' = e
         /\ ret' = NoRet
         /\ IF ~s
            THEN pc' = "sync" /\ rcv' = Sync_begin /\ rdl' = "sync" /\ cb' = cb
            ELSE pc' = "receive" /\ rcv' = receive_begin("req") /\ rdl' = "none" /\ cb' = reqBuf

\* top of the body of run's loop: Sync when not synced (s), else
\* ReceiveReq(ss.reqBuf[:], time.Time{}): a zero deadline is no deadline
run_loop(s, e) ==
    /\ err' = e
    /\ ret' = NoRet
    /\ IF ~s
       THEN pc' = "sync" /\ rcv' = Sync_begin /\ rdl' = "sync" /\ cb' = cb
       ELSE pc' = "receive" /\ rcv' = receive_begin("req") /\ rdl' = "none" /\ cb' = reqBuf

\* what HandlerRaw.Handle may return: nil (<<>>), or a response ADU
HandlerRawResults == {<<>>, ResExcADU}

\* what Handler.Handle may return: nil, a response, or a response that
\* cannot be packed
HandlerResults ==
    { [t |-> "nil"],
      [t |-> "ResRdInputs", Coils |-> TRUE, BitStat |-> <<205>>],
      [t |-> "ResRdInputs", Coils |-> TRUE, BitStat |-> <<>>] }

\* handle: SerPack(resADU, node, &exc), the exception response
handle_exc(node, fn, code) ==
    SerPack(resBuf, node, [t |-> "ResExc", Function |-> fn, ExCode |-> code]).b

\* handle answering although both handlers are nil
handle_answering(reqADU) ==
    {[res |-> ResExcADU, calls |-> <<>>, fault |-> FALSE]}

\* ss.handle(reqADU): the ways it can go.  res is the ADU returned, nil being
\* <<>>; calls are the calls made of the handlers, each with its result
\* ("nil" or "res") and arguments; fault is a run-time panic.
handle(reqADU) ==
    IF handler = "none" THEN {[res |-> <<>>, calls |-> <<>>, fault |-> FALSE]}
    ELSE IF handler = "raw"
    THEN {[res |-> h,
           calls |-> <<<<"HandlerRaw", IF Len(h) = 0 THEN "nil" ELSE "res", <<reqADU>>>>>>,
           fault |-> FALSE] : h \in HandlerRawResults}
    ELSE LET node == Node(reqADU)
             fn == FnCode(reqADU)
             nr == NewReq(fn)
             u == Unpack(nr.r, reqADU)
         IN  IF nr.err # "nil"
             THEN {[res |-> handle_exc(node, fn, BadFnCode), calls |-> <<>>, fault |-> FALSE]}
             ELSE IF u.err = "panic"
             THEN {[res |-> <<>>, calls |-> <<>>, fault |-> TRUE]}
             ELSE IF u.err # "nil"
             THEN {[res |-> handle_exc(node, fn, BadValue), calls |-> <<>>, fault |-> FALSE]}
             ELSE {[res |-> IF v.t = "nil" THEN <<>>
                            ELSE IF SerPack(resBuf, node, v).err # "nil"
                                 THEN handle_exc(node, fn, SrvFail)
                                 ELSE SerPack(resBuf, node, v).b,
                    calls |-> <<<<"Handler", IF v.t = "nil" THEN "nil" ELSE "res",
                                  <<node, u.r>>>>>>,
                    fault |-> FALSE] : v \in HandlerResults}

\* ss.transmit(res): conn.Write(res) returned te
transmit(res, te) == <<"Write", te, res>>

\* the calls made when run calls ss.handle(reqADU) and it goes as h: handle
\* itself, with what it returned, and the handler it called
handled(h) == <<<<"handle", IF Len(h.res) = 0 THEN "nil" ELSE "res", h.res>>>> \o h.calls

\* run: after ReceiveReq returned reqADU with a nil error.  h is how handle
\* went and te the result of the Write, were the response transmitted; tr is
\* the trace up to here.
run_dispatch(reqADU, h, te, tr) ==
    IF Node(reqADU) = 0
    THEN IF h.fault
         THEN pc' = "crashed" /\ trace' = tr /\ UNCHANGED <<rcv, rdl, cb, err, ret>>
         ELSE trace' = tr \o handled(h) /\ run_loop(synced, "nil")
    ELSE IF NodeId = 0 \/ NodeId = Node(reqADU)
    THEN IF h.fault
         THEN pc' = "crashed" /\ trace' = tr /\ UNCHANGED <<rcv, rdl, cb, err, ret>>
         ELSE IF Len(h.res) # 0
         THEN /\ trace' = Append(tr \o handled(h), transmit(h.res, te))
              /\ IF te # "nil" THEN run_return(te) ELSE run_loop(synced, "nil")
         ELSE /\ trace' = tr \o handled(h)
              /\ pc' = "receive"
              /\ rcv' = receive_begin("res")
              /\ rdl' = "caller"
              /\ cb' = resBuf
              /\ err' = "nil"
              /\ ret' = NoRet
    ELSE /\ trace' = tr
         /\ pc' = "receive"
         /\ rcv' = receive_begin("res")
         /\ rdl' = "caller"
         /\ cb' = resBuf
         /\ err' = "nil"
         /\ ret' = NoRet

\* the bus: the master, or another slave, puts the next frame of sent on the
\* idle line; a closed stream delivers nothing more
SlvArrive ==
    /\ role = "slave"
    /\ ~closed
    /\ Len(wire) = 0
    /\ got < Len(sent)
    /\ wire' = sent[got + 1].adu
    /\ got' = got + 1
    /\ UNCHANGED <<closed, rdl, pc, rcv, cb, synced, try, err, req, ret, ncalls, trace,
                   rdSync, rdRecv, rdErr, needSync, cfg, sent, clean>>

\* Start: run is entered
SlvStart ==
    /\ role = "slave"
    /\ pc = "idle"
    /\ ncalls = 0
    /\ ncalls' = 1
    /\ run_loop(synced, "nil")
    /\ UNCHANGED <<wire, closed, synced, try, req, trace, rdSync, rdRecv, rdErr, needSync,
                   cfg, harness>>

\* ss.rcv.Sync(): one probe read
SlvSyncRead ==
    /\ role = "slave"
    /\ pc = "sync"
    /\ \E o \in ReadOutcomes(SyncBufSz) : \E dt \in ProbeTimes(o[2]) :
          LET r == Sync_iter(rcv, o[2], dt) IN
          /\ wire' = Drop(wire, o[1])
          /\ rdSync' = TRUE
          /\ rdErr' = o[2]
          /\ IF r.res = "more"
             THEN /\ rcv' = r.rcv
                  /\ UNCHANGED <<pc, rdl, cb, synced, err, ret, trace, needSync>>
             ELSE /\ trace' = Append(trace, <<"Sync", r.res, <<>>>>)
                  /\ IF r.res = "nil"
                     THEN /\ synced' = TRUE
                          /\ needSync' = FALSE
                          /\ run_loop(TRUE, "nil")
                     ELSE /\ run_return(r.res)
                          /\ UNCHANGED <<synced, needSync>>
    /\ UNCHANGED <<closed, try, req, ncalls, rdRecv, cfg, harness>>

\* ss.rcv.ReceiveReq / ss.rcv.ReceiveRes: one read; when the call returns,
\* the rest of the loop body
SlvReceiveRead ==
    /\ role = "slave"
    /\ pc = "receive"
    /\ \E o \in ReadOutcomes(rcv.nrem) :
          LET r == receive_iter(rcv, o[1], o[2], wire)
              tr == IF rcv.kind = "req" THEN <<<<"ReceiveReq", r.res, r.rcv.fr>>>>
                    ELSE Append(trace, <<"ReceiveRes", r.res, r.rcv.fr>>)
          IN
          /\ wire' = Drop(wire, o[1])
          /\ rdRecv' = TRUE
          /\ rdErr' = o[2]
          /\ IF r.res = "more"
             THEN /\ rcv' = r.rcv
                  /\ rdl' = "frame"
                  /\ UNCHANGED <<pc, cb, synced, err, ret, trace, needSync>>
             ELSE IF r.res = "panic"
             THEN /\ pc' = "crashed"
                  /\ rcv' = r.rcv
                  /\ UNCHANGED <<rdl, cb, synced, err, ret, trace, needSync>>
             ELSE /\ needSync' = (needSync \/ r.res \in {"ErrFrame", "ErrCRC"})
                  /\ IF IsErrIO(r.res)
                     THEN run_return(r.res) /\ synced' = synced /\ trace' = tr
                     ELSE IF r.res # "nil"
                     THEN /\ synced' = (synced /\ r.res \notin {"ErrFrame", "ErrCRC"})
                          /\ trace' = tr
                          /\ run_loop(synced', r.res)
                     ELSE IF rcv.kind = "res"
                     THEN run_loop(synced, "nil") /\ synced' = synced /\ trace' = tr
                     ELSE /\ synced' = synced
                          /\ \E h \in handle(receive_return(cb, r.rcv.fr, r.res)),
                                te \in Transmit_results :
                                run_dispatch(receive_return(cb, r.rcv.fr, r.res), h, te, tr)
    /\ UNCHANGED <<closed, try, req, ncalls, rdSync, cfg, harness>>

(***************************************************************************)
(* The receiver used directly, as the package's tests do                   *)
(***************************************************************************)
\* frames that may be on the line: direction, bytes, and whether the bytes
\* are an ADU packed by SerPack
FrameSet ==
    { [dir |-> "req", adu |-> ReqRdCoilsADU, valid |-> TRUE],
      [dir |-> "req", adu |-> ReqBroadcastADU, valid |-> TRUE],
      [dir |-> "res", adu |-> ResRdCoilsADU, valid |-> TRUE],
      [dir |-> "res", adu |-> ResBadCrcADU, valid |-> FALSE],
      [dir |-> "req", adu |-> DiagADU, valid |-> FALSE] }

\* the frames on the line of a slave (requests, among them broadcasts) and
\* those fed to the receiver when it is used directly (both directions)
LineFrames(r) ==
    IF r = "slave" THEN { f \in FrameSet : f.adu # ResRdCoilsADU }
    ELSE { f \in FrameSet : f.adu # ReqBroadcastADU }

FrameSeqs(r) == UNION { [1 .. n -> LineFrames(r)] : n \in 0 .. MaxFrames }

RECURSIVE Flatten(_)
\* the bytes of a sequence of frames, back to back
Flatten(fs) == IF Len(fs) = 0 THEN <<>> ELSE fs[1].adu \o Flatten(Tail(fs))

\* the call in progress is made in step with the line: every earlier call
\* returned its frame, and kind k is the direction of the next frame, which
\* is a packed ADU
InStep(k) ==
    /\ clean
    /\ ret.err \in {"none", "nil"}
    /\ got < Len(sent)
    /\ sent[got + 1].valid
    /\ sent[got + 1].dir = k

\* rcv.ReceiveReq(b, deadline) or rcv.ReceiveRes(b, deadline) is called
ReceiveCall ==
    /\ role = "rcv"
    /\ pc = "idle"
    /\ ncalls < MaxCalls
    /\ \E k \in {"req", "res"}, b \in CallerBufs :
          /\ rcv' = receive_begin(k)
          /\ cb' = b
          /\ rdl' = "caller"
          /\ clean' = InStep(k)
    /\ pc' = "receive"
    /\ ret' = NoRet
    /\ ncalls' = ncalls + 1
    /\ rdSync' = FALSE
    /\ rdRecv' = FALSE
    /\ UNCHANGED <<wire, closed, synced, try, err, req, trace, rdErr, needSync, cfg,
                   sent, got>>

\* rcv.Sync() is called
SyncCall ==
    /\ role = "rcv"
    /\ pc = "idle"
    /\ ncalls < MaxCalls
    /\ rcv' = Sync_begin
    /\ rdl' = "sync"
    /\ clean' = FALSE
    /\ pc' = "sync"
    /\ ret' = NoRet
    /\ ncalls' = ncalls + 1
    /\ rdSync' = FALSE
    /\ rdRecv' = FALSE
    /\ UNCHANGED <<wire, closed, cb, synced, try, err, req, trace, rdErr, needSync, cfg,
                   sent, got>>

\* receive: one read
RcvReceiveRead ==
    /\ role = "rcv"
    /\ pc = "receive"
    /\ \E o \in ReadOutcomes(rcv.nrem) :
          LET r == receive_iter(rcv, o[1], o[2], wire) IN
          /\ wire' = Drop(wire, o[1])
          /\ rdRecv' = TRUE
          /\ rdErr' = o[2]
          /\ rcv' = r.rcv
          /\ IF r.res = "more"
             THEN rdl' = "frame" /\ UNCHANGED <<pc, ret, got, needSync>>
             ELSE IF r.res = "panic"
             THEN pc' = "crashed" /\ UNCHANGED <<rdl, ret, got, needSync>>
             ELSE /\ pc' = "idle"
                  /\ ret' = [b |-> receive_return(cb, r.rcv.fr, r.res), err |-> r.res]
                  /\ got' = IF clean /\ r.res = "nil" THEN got + 1 ELSE got
                  /\ needSync' = (needSync \/ r.res \in {"ErrFrame", "ErrCRC"})
                  /\ rdl' = rdl
    /\ UNCHANGED <<closed, cb, synced, try, err, req, ncalls, trace, rdSync, cfg,
                   sent, clean>>

\* Sync: one probe read
RcvSyncRead ==
    /\ role = "rcv"
    /\ pc = "sync"
    /\ \E o \in ReadOutcomes(SyncBufSz) : \E dt \in ProbeTimes(o[2]) :
          LET r == Sync_iter(rcv, o[2], dt) IN
          /\ wire' = Drop(wire, o[1])
          /\ rdSync' = TRUE
          /\ rdErr' = o[2]
          /\ rcv' = r.rcv
          /\ IF r.res = "more"
             THEN UNCHANGED <<pc, ret, needSync>>
             ELSE /\ pc' = "idle"
                  /\ ret' = [b |-> <<>>, err |-> r.res]
                  /\ needSync' = (needSync /\ r.res # "nil")
    /\ UNCHANGED <<closed, rdl, cb, synced, try, err, req, ncalls, trace, rdRecv, cfg,
                   harness>>

(***************************************************************************)
(* Specification                                                           *)
(***************************************************************************)
(***************************************************************************)
(* A sizer alone, as in TestResFrameSz: a value is packed into an ADU a    *)
(* (kept in req) and one sizer is fed a[:0], a[:1], ... until it reports   *)
(* 0 or a is used up.  rcv.fr is the prefix fed last, rcv.nrem and ret.err *)
(* what the sizer returned for it.                                         *)
(***************************************************************************)
\* one call of sz.size(p) by a sizer of kind k whose memoized size is s
FrameSz_size(k, s, p) ==
    LET z == size(k, s, p)
    IN  [rcv |-> [kind |-> k, fr |-> p, sz |-> z.sz, nrem |-> z.remain, elapsed |-> 0],
         err |-> IF z.fault THEN "panic" ELSE IF ~z.ok THEN "unsupported" ELSE "nil"]

\* the loop goes on: the sizer asked for more and a has more bytes
FrameSz_more == ret.err = "nil" /\ rcv.nrem # 0 /\ Len(rcv.fr) < Len(req)

\* SerPack(nil, 0x01, tst.r) and the first pass of the loop, i = 0
FrameSzPack ==
    /\ role = "sizer"
    /\ pc = "idle"
    /\ ncalls < MaxCalls
    /\ \E tst \in packTestData :
          LET a == SerPack(<<>>, 1, tst.r)
              z == FrameSz_size(IF tst.req THEN "req" ELSE "res", 0, <<>>)
          IN  IF a.err # "nil"
              THEN /\ req' = <<>>
                   /\ rcv' = RcvIdle
                   /\ ret' = [b |-> a.b, err |-> a.err]
                   /\ pc' = "idle"
              ELSE /\ req' = a.b
                   /\ rcv' = z.rcv
                   /\ ret' = [b |-> <<>>, err |-> z.err]
                   /\ pc' = "size"
    /\ ncalls' = ncalls + 1
    /\ UNCHANGED <<wire, closed, rdl, cb, synced, try, err, trace, rdSync, rdRecv,
                   rdErr, needSync, cfg, sent, got, clean>>

\* the next pass of the loop: sz.size(a[:i]) with i one more than before
FrameSzNext ==
    /\ role = "sizer"
    /\ pc = "size"
    /\ IF FrameSz_more
       THEN LET z == FrameSz_size(rcv.kind, rcv.sz, Take(req, Len(rcv.fr) + 1))
            IN  /\ rcv' = z.rcv
                /\ ret' = [b |-> <<>>, err |-> z.err]
                /\ pc' = "size"
       ELSE /\ pc' = "idle"
            /\ UNCHANGED <<rcv, ret>>
    /\ UNCHANGED <<wire, closed, rdl, cb, synced, try, err, req, trace, rdSync, rdRecv,
                   rdErr, needSync, cfg, sent, got, clean, ncalls>>

NoCall == [op |-> "none"]

\* no library call was made and no counter exists
LibIdle ==
    /\ val = NoCall
    /\ out = NoCall
    /\ ca = <<>>
    /\ mu = 0
    /\ thr = <<>>
    /\ inc = <<>>

\* no driver and no receiver is in use
DrvIdle ==
    /\ Retrans = 0
    /\ NodeId = 0
    /\ handler = "none"
    /\ cnt = 0
    /\ sent = <<>>
    /\ wire = <<>>
    /\ closed = FALSE
    /\ rdl = "none"
    /\ pc = "idle"
    /\ rcv = RcvIdle
    /\ cb = <<>>
    /\ synced = FALSE
    /\ try = 0
    /\ err = "nil"
    /\ req = <<>>
    /\ ret = NoRet
    /\ ncalls = 0
    /\ trace = <<>>
    /\ rdSync = FALSE
    /\ rdRecv = FALSE
    /\ rdErr = "none"
    /\ needSync = FALSE
    /\ got = 0
    /\ clean = TRUE

\* the variables of the drivers and of the receiver
drv == <<wire, closed, rdl, pc, rcv, cb, synced, Retrans, try, err, req, NodeId,
         handler, cnt, ret, ncalls, trace, rdSync, rdRecv, rdErr, needSync, sent,
         got, clean>>

Init ==
    /\ role \in {"master", "slave", "rcv", "sizer"}
    /\ Retrans \in IF role = "master" THEN -1 .. MaxRetrans ELSE {0}
    /\ NodeId \in IF role = "slave" THEN {0, 1, 2} ELSE {0}
    /\ handler \in IF role = "slave" THEN {"none", "raw", "std"} ELSE {"none"}
    /\ cnt = 0
    /\ sent \in IF role \in {"master", "sizer"} THEN {<<>>} ELSE FrameSeqs(role)
    /\ wire = IF role = "slave" THEN <<>> ELSE Flatten(sent)
    /\ closed = FALSE
    /\ rdl = "none"
    /\ pc = "idle"
    /\ rcv = RcvIdle
    /\ cb = <<>>
    /\ synced = FALSE
    /\ try = 0
    /\ err = "nil"
    /\ req = <<>>
    /\ ret = NoRet
    /\ ncalls = 0
    /\ trace = <<>>
    /\ rdSync = FALSE
    /\ rdRecv = FALSE
    /\ rdErr = "none"
    /\ needSync = FALSE
    /\ got = 0
    /\ clean = TRUE
    /\ LibIdle

Next ==
    \/ Close
    \/ SndRcv
    \/ MstSyncRead
    \/ MstTransmit
    \/ MstReceiveRead
    \/ SlvArrive
    \/ SlvStart
    \/ SlvSyncRead
    \/ SlvReceiveRead
    \/ ReceiveCall
    \/ SyncCall
    \/ RcvReceiveRead
    \/ RcvSyncRead
    \/ FrameSzPack
    \/ FrameSzNext

Spec == Init /\ [][Next]_vars

(***************************************************************************)
(* The master's constructor and Do.  Durations are in milliseconds.        *)
(***************************************************************************)
DflSerMstTimeout == 150

DflSerMstFrameTimeout == 60

DflSerMstSyncDelay == DflSerMstFrameTimeout

DflSerDelay == 10

DflSerSyncWaitMax == 10000

\* a configuration with every field zero
ZeroConf ==
    [Baudrate |-> 0, Timeout |-> 0, FrameTimeout |-> 0, Delay |-> 0, Retrans |-> 0,
     SyncDelay |-> 0, SyncWaitMax |-> 0, Ascii |-> FALSE]

\* the configurations NewSerMasterStd is called with: each field zero or set
SerMasterConfs ==
    [Baudrate : {0, 19200}, Timeout : {0, 200}, FrameTimeout : {0, 80},
     Delay : {0, 20}, Retrans : {0, 1}, SyncDelay : {0, 70},
     SyncWaitMax : {0, 5000}, Ascii : BOOLEAN]

\* NewSerMasterStd: "Fixup params"
SerMasterConf_fixup(c) ==
    [c EXCEPT !.Baudrate = IF c.Baudrate <= 0 THEN 9600 ELSE c.Baudrate,
              !.Timeout = IF c.Timeout <= 0 THEN DflSerMstTimeout ELSE c.Timeout,
              !.FrameTimeout = IF c.FrameTimeout <= 0 THEN DflSerMstFrameTimeout
                               ELSE c.FrameTimeout,
              !.Delay = IF c.Delay <= 0 THEN DflSerDelay ELSE c.Delay,
              !.SyncDelay = IF c.SyncDelay <= 0 THEN DflSerMstSyncDelay ELSE c.SyncDelay,
              !.SyncWaitMax = IF c.SyncWaitMax <= 0 THEN DflSerSyncWaitMax
                              ELSE c.SyncWaitMax]

\* NewSerMaster(rcv, trx), then sm.Timeout and sm.Retrans set
NewSerMaster(f) ==
    [Timeout |-> f.Timeout, Retrans |-> f.Retrans, synced |-> FALSE,
     rcv |-> [FrameTimeout |-> f.FrameTimeout, SyncDelay |-> f.SyncDelay,
              SyncWaitMax |-> f.SyncWaitMax],
     trx |-> [Baudrate |-> f.Baudrate, Delay |-> f.Delay]]

\* NewSerMasterStd(conn, cfg): sm is declared nil and is assigned only after
\* sm.rcv = rcv, which therefore dereferences the nil pointer
NewSerMasterStd(c) ==
    LET sm == "nil"
        f == SerMasterConf_fixup(c)
    IN  IF f.Ascii THEN [op |-> "NewSerMasterStd", sm |-> "nil", panic |-> "TODO"]
        ELSE IF sm = "nil"
        THEN [op |-> "NewSerMasterStd", sm |-> "nil", panic |-> "nil dereference"]
        ELSE [op |-> "NewSerMasterStd", sm |-> NewSerMaster(f), panic |-> "none"]

\* the requests given to Do
DoReqs == {d.r : d \in {t \in packTestData : t.req}}

\* (*SerMaster).Do(node, req, res): return nil, nil
Do(node, rq, rs) == [op |-> "Do", res |-> "nil", err |-> "nil"]

NewSerMasterStdCall ==
    /\ role = "api"
    /\ val = NoCall
    /\ \E c \in SerMasterConfs :
          /\ val' = [op |-> "NewSerMasterStd", cfg |-> c]
          /\ out' = NewSerMasterStd(c)
    /\ UNCHANGED <<role, drv, ca, mu, thr, inc>>

DoCall ==
    /\ role = "api"
    /\ val = NoCall
    /\ \E node \in {0, 1, 2}, rq \in DoReqs, rs \in {"nil", "given"} :
          /\ val' = [op |-> "Do", node |-> node, req |-> rq, res |-> rs]
          /\ out' = Do(node, rq, rs)
    /\ UNCHANGED <<role, drv, ca, mu, thr, inc>>

ApiInit == role = "api" /\ DrvIdle /\ LibIdle

ApiNext ==
    \/ NewSerMasterStdCall
    \/ DoCall

ApiSpec == ApiInit /\ [][ApiNext]_vars

(***************************************************************************)
(* counters: a slice of counters behind a mutex, used by several           *)
(* goroutines at once (the slave loop, and callers of Counter and          *)
(* Counters).  A call is Lock, its body one memory access at a time,       *)
(* then the deferred Unlock.                                               *)
(***************************************************************************)
Goroutines == {1, 2}

ThrIdle == [op |-> "idle", cnt |-> 0, pc |-> "idle", tmp |-> 0, r |-> <<>>, i |-> 0]

RECURSIVE SumSeq(_)
SumSeq(q) == IF Len(q) = 0 THEN 0 ELSE Head(q) + SumSeq(Tail(q))

\* make([]uint64, n)
Zeros(n) == [k \in 1 .. n |-> 0]

\* Inc calls begun and not undone by a reset
IncsStarted == SumSeq(inc) + Cardinality({t \in Goroutines : thr[t].op = "Inc"})

\* a Lock that does not wait
Lock_any == TRUE

\* c.Lock() goes through only when nobody holds the mutex
Lock_ok == mu = 0

\* one memory access of the body of the call th is in, on the slice a:
\* the locals and the slice after it
counters_step(th, a) ==
    CASE th.op = "Inc" /\ th.pc = "body" ->
           IF th.cnt >= Len(a) THEN [th |-> [th EXCEPT !.pc = "unlock"], ca |-> a]
           ELSE [th |-> [th EXCEPT !.tmp = At(a, th.cnt), !.pc = "store"], ca |-> a]
      [] th.op = "Inc" /\ th.pc = "store" ->
           [th |-> [th EXCEPT !.pc = "unlock"], ca |-> [a EXCEPT ![th.cnt + 1] = th.tmp + 1]]
      [] th.op = "Rst" ->
           IF th.cnt >= Len(a) THEN [th |-> [th EXCEPT !.pc = "unlock"], ca |-> a]
           ELSE [th |-> [th EXCEPT !.pc = "unlock"], ca |-> [a EXCEPT ![th.cnt + 1] = 0]]
      [] th.op = "Get" ->
           IF th.cnt >= Len(a) THEN [th |-> [th EXCEPT !.r = <<0>>, !.pc = "unlock"], ca |-> a]
           ELSE [th |-> [th EXCEPT !.r = <<At(a, th.cnt)>>, !.pc = "unlock"], ca |-> a]
      [] th.op = "GetAll" /\ th.pc = "body" ->
           [th |-> [th EXCEPT !.r = Zeros(Len(a)), !.i = 0, !.pc = "copy"], ca |-> a]
      [] th.op = "GetAll" /\ th.pc = "copy" ->
           IF th.i >= Len(a) THEN [th |-> [th EXCEPT !.pc = "unlock"], ca |-> a]
           ELSE [th |-> [th EXCEPT !.r[th.i + 1] = At(a, th.i), !.i = th.i + 1], ca |-> a]
      [] th.op = "RstAll" ->
           IF th.i >= Len(a) THEN [th |-> [th EXCEPT !.pc = "unlock"], ca |-> a]
           ELSE [th |-> [th EXCEPT !.i = th.i + 1, !.pc = "store"],
                 ca |-> [a EXCEPT ![th.i + 1] = 0]]

\* the returned Inc calls per counter, after the call th returns
counters_done(th, n) ==
    CASE th.op = "Inc" /\ th.cnt < Len(n) -> [n EXCEPT ![th.cnt + 1] = n[th.cnt + 1] + 1]
      [] th.op = "Rst" /\ th.cnt < Len(n) -> [n EXCEPT ![th.cnt + 1] = 0]
      [] th.op = "RstAll" -> Zeros(Len(n))
      [] OTHER -> n

\* a goroutine calls Inc, Rst, Get (Counter), GetAll (Counters) or RstAll
CntCall ==
    /\ role = "counters"
    /\ \E t \in Goroutines, op \in {"Inc", "Rst", "Get", "GetAll", "RstAll"},
          c \in 0 .. MaxCnt :
          /\ thr[t].op = "idle"
          /\ op = "Inc" => IncsStarted < MaxIncs
          /\ op \in {"GetAll", "RstAll"} => c = 0
          /\ thr' = [thr EXCEPT ![t] = [ThrIdle EXCEPT !.op = op, !.cnt = c, !.pc = "lock"]]
    /\ UNCHANGED <<role, drv, val, out, ca, mu, inc>>

\* c.Lock()
CntLock ==
    /\ role = "counters"
    /\ \E t \in Goroutines :
          /\ thr[t].pc = "lock"
          /\ Lock_ok
          /\ mu' = t
          /\ thr' = [thr EXCEPT ![t].pc = "body"]
    /\ UNCHANGED <<role, drv, val, out, ca, inc>>

\* the body, one memory access
CntStep ==
    /\ role = "counters"
    /\ \E t \in Goroutines :
          /\ thr[t].pc \in {"body", "store", "copy"}
          /\ LET s == counters_step(thr[t], ca)
             IN  /\ thr' = [thr EXCEPT ![t] = s.th]
                 /\ ca' = s.ca
    /\ UNCHANGED <<role, drv, val, out, mu, inc>>

\* the deferred c.Unlock(), and the return
CntUnlock ==
    /\ role = "counters"
    /\ \E t \in Goroutines :
          /\ thr[t].pc = "unlock"
          /\ mu' = 0
          /\ inc' = counters_done(thr[t], inc)
          /\ thr' = [thr EXCEPT ![t] = ThrIdle]
    /\ UNCHANGED <<role, drv, val, out, ca>>

\* after ss.cnt.Init(MaxCnt)
CntInit ==
    /\ role = "counters"
    /\ DrvIdle
    /\ val = NoCall
    /\ out = NoCall
    /\ ca = Zeros(MaxCnt)
    /\ mu = 0
    /\ thr = [t \in Goroutines |-> ThrIdle]
    /\ inc = Zeros(MaxCnt)

CntNext ==
    \/ CntCall
    \/ CntLock
    \/ CntStep
    \/ CntUnlock

CntSpec == CntInit /\ [][CntNext]_vars

(***************************************************************************)
(* XDU: buf is the array, Data the slice buf[lo:hi] of it.  A slice        *)
(* expression or an index past the end panics.                             *)
(***************************************************************************)
MaxADU == 260

TcpHeadSz == 7

XduBufSz == MaxADU + SerCRCSz

\* x.Data
Data(x) == SubSeq(x.buf, x.lo + 1, x.hi)

\* x.buf with the bytes bs stored from index i on
XduStore(x, i, bs) ==
    [x EXCEPT !.buf = [k \in 1 .. XduBufSz |->
                          IF k > i /\ k <= i + Len(bs) THEN bs[k - i] ELSE x.buf[k]]]

\* x.Data = append(x.Data, bs...): in place while the capacity lasts (a longer
\* append moves Data out of buf; the ADUs appended here never reach it)
XduAppend(x, bs) ==
    IF x.hi + Len(bs) > XduBufSz THEN [x EXCEPT !.panic = "realloc"]
    ELSE [XduStore(x, x.hi, bs) EXCEPT !.hi = x.hi + Len(bs)]

\* x.Data = x.buf[lo:hi]
XduSlice(x, lo, hi) ==
    IF lo < 0 \/ lo > hi \/ hi > XduBufSz THEN [x EXCEPT !.panic = "slice"]
    ELSE [x EXCEPT !.lo = lo, !.hi = hi]

\* TcpADU.Trans, Proto, Len, Unit, PDU
TcpADU_Trans(a) == At(a, 0) * 256 + At(a, 1)

TcpADU_Proto(a) == At(a, 2) * 256 + At(a, 3)

TcpADU_Len(a) == At(a, 4) * 256 + At(a, 5)

TcpADU_Unit(a) == At(a, 6)

TcpADU_PDU(a) == Drop(a, TcpHeadSz)

\* SerADU.PDU
PDU(a) == SubSeq(a, SerHeadSz + 1, Len(a) - SerCRCSz)

\* SetTrans / SetProto / SetLen storing the low byte first
XduSetU16_le(x, i, w) ==
    IF x.panic # "none" THEN x
    ELSE IF i + 2 > x.hi - x.lo THEN [x EXCEPT !.panic = "index"]
    ELSE XduStore(x, x.lo + i, <<w % 256, (w \div 256) % 256>>)

\* TcpADU(x.Data).SetTrans / SetProto / SetLen: two bytes, high one first,
\* stored at index i of Data
XduSetU16(x, i, w) ==
    IF x.panic # "none" THEN x
    ELSE IF i + 2 > x.hi - x.lo THEN [x EXCEPT !.panic = "index"]
    ELSE XduStore(x, x.lo + i, <<(w \div 256) % 256, w % 256>>)

ResetSerADU(x) == XduSlice(x, TcpHeadSz - SerHeadSz, TcpHeadSz - SerHeadSz)

ResetTcpADU(x) == XduSlice(x, 0, 0)

\* Ser2TcpADU that keeps the two CRC bytes in Data
Ser2TcpADU_keepcrc(x, trans) ==
    LET l == (x.hi - x.lo) % 65536
        x1 == XduSlice(x, 0, (l + TcpHeadSz - SerHeadSz) % 65536)
    IN  XduSetU16(XduSetU16(XduSetU16(x1, 0, trans), 2, 0), 4, (l + 65536 - 2) % 65536)

\* (*XDU).Ser2TcpADU(trans); l is a uint16
Ser2TcpADU(x, trans) ==
    LET l == (x.hi - x.lo) % 65536
        x1 == XduSlice(x, 0, (l + 65536 + TcpHeadSz - SerHeadSz - SerCRCSz) % 65536)
    IN  XduSetU16(XduSetU16(XduSetU16(x1, 0, trans), 2, 0), 4, (l + 65536 - 2) % 65536)

\* Tcp2SerADU without the CRC
Tcp2SerADU_nocrc(x) == XduSlice(x, TcpHeadSz - SerHeadSz, x.hi - x.lo)

\* (*XDU).Tcp2SerADU(): SerAddCRC appends in place, x.Data having the
\* capacity of the rest of buf
Tcp2SerADU(x) ==
    LET x1 == XduSlice(x, TcpHeadSz - SerHeadSz, x.hi - x.lo)
    IN  IF x1.panic # "none" THEN x1
        ELSE XduAppend(x1, Drop(SerAddCRC(Data(x1)), x1.hi - x1.lo))

\* an XDU before its first Reset: the array zeroed, or holding old bytes
XduFresh == {[buf |-> [k \in 1 .. XduBufSz |-> v], lo |-> 0, hi |-> 0, panic |-> "none"] :
                v \in {0, 255}}

\* the PDUs that are put into ADUs: the packed values of packTestData
Pdus == {Pack(d.r, <<>>).b : d \in {t \in packTestData : Pack(t.r, <<>>).err = "nil"}}

\* serial ADUs: address, PDU, CRC
SerADUs == {SerAddCRC(<<n>> \o p) : n \in {1, 247}, p \in Pdus}

\* TCP ADUs: MBAP header (transaction, protocol 0, length, unit), PDU
TcpADUs ==
    {<<t \div 256, t % 256, 0, 0, (Len(p) + 1) \div 256, (Len(p) + 1) % 256, u>> \o p :
        t \in {1, 4660}, u \in {1, 247}, p \in Pdus}

Transactions == {0, 1, 4660, 65535}

XduReset ==
    /\ role = "codec"
    /\ val = NoCall
    /\ \E x \in XduFresh, k \in {"ser", "tcp"} :
          /\ val' = [op |-> "Reset", kind |-> k]
          /\ out' = [op |-> "Reset", x |-> IF k = "ser" THEN ResetSerADU(x) ELSE ResetTcpADU(x)]
    /\ UNCHANGED <<role, drv, ca, mu, thr, inc>>

\* the caller appends an ADU of the kind it reset the XDU for
XduFill ==
    /\ role = "codec"
    /\ val.op = "Reset"
    /\ \E a \in IF val.kind = "ser" THEN SerADUs ELSE TcpADUs :
          /\ val' = [op |-> "append", kind |-> val.kind, adu |-> a]
          /\ out' = [op |-> "append", x |-> XduAppend(out.x, a)]
    /\ UNCHANGED <<role, drv, ca, mu, thr, inc>>

XduConvert ==
    /\ role = "codec"
    /\ val.op = "append"
    /\ IF val.kind = "ser"
       THEN \E t \in Transactions :
               /\ val' = [op |-> "Ser2TcpADU", adu |-> val.adu, trans |-> t, x |-> out.x]
               /\ out' = [op |-> "Ser2TcpADU", x |-> Ser2TcpADU(out.x, t)]
       ELSE /\ val' = [op |-> "Tcp2SerADU", adu |-> val.adu, x |-> out.x]
            /\ out' = [op |-> "Tcp2SerADU", x |-> Tcp2SerADU(out.x)]
    /\ UNCHANGED <<role, drv, ca, mu, thr, inc>>

\* the conversion in the other direction, applied to the result of the first
XduConvertBack ==
    /\ role = "codec"
    /\ val.op \in {"Ser2TcpADU", "Tcp2SerADU"}
    /\ out.x.panic = "none"
    /\ IF val.op = "Ser2TcpADU"
       THEN /\ val' = [op |-> "Ser2Tcp2Ser", adu |-> val.adu, trans |-> val.trans]
            /\ out' = [op |-> "Ser2Tcp2Ser", x |-> Tcp2SerADU(out.x)]
       ELSE \E t \in Transactions :
               /\ val' = [op |-> "Tcp2Ser2Tcp", adu |-> val.adu, trans |-> t]
               /\ out' = [op |-> "Tcp2Ser2Tcp", x |-> Ser2TcpADU(out.x, t)]
    /\ UNCHANGED <<role, drv, ca, mu, thr, inc>>

\* the table of packTestData: request or response, wire bytes, value
packTestTable ==
    {[req |-> FALSE, b |-> <<129, 1>>,
      r |-> [t |-> "ResExc", Function |-> RdCoils, ExCode |-> BadFnCode]],
     [req |-> TRUE, b |-> <<1, 0, 19, 0, 19>>,
      r |-> [t |-> "ReqRdInputs", Coils |-> TRUE, Addr |-> 19, Num |-> 19]],
     [req |-> FALSE, b |-> <<1, 3, 205, 107, 5>>,
      r |-> [t |-> "ResRdInputs", Coils |-> TRUE, BitStat |-> <<205, 107, 5>>]],
     [req |-> TRUE, b |-> <<2, 0, 196, 0, 22>>,
      r |-> [t |-> "ReqRdInputs", Coils |-> FALSE, Addr |-> 196, Num |-> 22]],
     [req |-> FALSE, b |-> <<2, 3, 172, 189, 53>>,
      r |-> [t |-> "ResRdInputs", Coils |-> FALSE, BitStat |-> <<172, 189, 53>>]],
     [req |-> TRUE, b |-> <<3, 0, 107, 0, 3>>,
      r |-> [t |-> "ReqRdRegs", Holding |-> TRUE, Addr |-> 107, Num |-> 3]],
     [req |-> FALSE, b |-> <<3, 6, 2, 43, 0, 0, 0, 100>>,
      r |-> [t |-> "ResRdRegs", Holding |-> TRUE, Val |-> <<555, 0, 100>>]],
     [req |-> TRUE, b |-> <<4, 0, 107, 0, 3>>,
      r |-> [t |-> "ReqRdRegs", Holding |-> FALSE, Addr |-> 107, Num |-> 3]],
     [req |-> FALSE, b |-> <<4, 6, 2, 43, 0, 0, 0, 100>>,
      r |-> [t |-> "ResRdRegs", Holding |-> FALSE, Val |-> <<555, 0, 100>>]],
     [req |-> TRUE, b |-> <<5, 0, 172, 255, 0>>,
      r |-> [t |-> "ReqResWrCoil", Addr |-> 172, Status |-> TRUE]],
     [req |-> FALSE, b |-> <<5, 0, 172, 255, 0>>,
      r |-> [t |-> "ReqResWrCoil", Addr |-> 172, Status |-> TRUE]],
     [req |-> TRUE, b |-> <<6, 0, 172, 222, 173>>,
      r |-> [t |-> "ReqResWrReg", Addr |-> 172, Val |-> 57005]],
     [req |-> FALSE, b |-> <<6, 0, 172, 222, 173>>,
      r |-> [t |-> "ReqResWrReg", Addr |-> 172, Val |-> 57005]]}

\* values at the limits of their fields, and just past them
packEdgeData ==
    {[req |-> FALSE, r |-> [t |-> "ResExc", Function |-> f, ExCode |-> e]] :
        f \in {WrReg, RdDevId, 127}, e \in {SrvFail, 255}}
    \cup {[req |-> TRUE, r |-> [t |-> "ReqRdInputs", Coils |-> c, Addr |-> a, Num |-> n]] :
             c \in BOOLEAN, a \in {0, 65535}, n \in {1, 2000, 2001}}
    \cup {[req |-> TRUE, r |-> [t |-> "ReqRdRegs", Holding |-> h, Addr |-> a, Num |-> n]] :
             h \in BOOLEAN, a \in {0, 65535}, n \in {0, 1, 125, 126}}
    \cup {[req |-> FALSE, r |-> [t |-> "ResRdInputs", Coils |-> c,
                                  BitStat |-> [k \in 1 .. n |-> k % 256]]] :
             c \in BOOLEAN, n \in {0, 1, 250, 251}}
    \cup {[req |-> FALSE, r |-> [t |-> "ResRdRegs", Holding |-> h,
                                  Val |-> [k \in 1 .. n |-> (k * 521) % 65536]]] :
             h \in BOOLEAN, n \in {0, 1, 125, 126}}
    \cup {[req |-> q, r |-> [t |-> "ReqResWrCoil", Addr |-> a, Status |-> st]] :
             q \in BOOLEAN, a \in {0, 65535}, st \in BOOLEAN}
    \cup {[req |-> q, r |-> [t |-> "ReqResWrReg", Addr |-> a, Val |-> v]] :
             q \in BOOLEAN, a \in {0, 65535}, v \in {0, 255, 256, 65535}}

\* the values given to the packers
PackValues ==
    packTestData \cup packEdgeData \cup {[req |-> t.req, r |-> t.r] : t \in packTestTable}

\* the node addresses given to SerPack
PackNodes == {0, 1, 247, 255}

\* SerPack(nil, node, r)
SerPackCall ==
    /\ role = "codec"
    /\ val = NoCall
    /\ \E d \in PackValues, n \in PackNodes :
          LET a == SerPack(<<>>, n, d.r)
          IN  /\ val' = [op |-> "SerPack", r |-> d.r, node |-> n]
              /\ out' = [op |-> "SerPack", b |-> a.b, err |-> a.err]
    /\ UNCHANGED <<role, drv, ca, mu, thr, inc>>

\* r.Pack(nil)
PackCall ==
    /\ role = "codec"
    /\ val = NoCall
    /\ \E d \in PackValues :
          LET p == Pack(d.r, <<>>)
          IN  /\ val' = [op |-> "Pack", req |-> d.req, r |-> d.r]
              /\ out' = [op |-> "Pack", b |-> p.b, err |-> p.err]
    /\ UNCHANGED <<role, drv, ca, mu, thr, inc>>

\* NewReq or NewRes for the first packed byte, then Unpack of the packed
\* bytes into the value it returned
UnpackCall ==
    /\ role = "codec"
    /\ val.op = "Pack"
    /\ out.err = "nil"
    /\ LET f == IF val.req THEN NewReq(At(out.b, 0)) ELSE NewRes(At(out.b, 0))
           u == IF f.err # "nil" THEN [r |-> f.r, b |-> out.b, err |-> f.err]
                ELSE Unpack(f.r, out.b)
       IN  /\ val' = [op |-> "Unpack", req |-> val.req, r |-> val.r, b |-> out.b]
           /\ out' = [op |-> "Unpack", r |-> u.r, b |-> u.b, err |-> u.err]
    /\ UNCHANGED <<role, drv, ca, mu, thr, inc>>

\* the fresh values NewReq and NewRes return, one per supported type
FreshValues ==
    {NewReq(f).r : f \in {RdInputs, RdCoils, WrCoil, RdInputRegs, RdHoldingRegs, WrReg}}
    \cup {NewRes(f).r : f \in {RdCoils + ExcFlag, RdInputs, RdCoils, WrCoil, RdInputRegs,
                               RdHoldingRegs, WrReg}}

\* buffers handed to Unpack: every prefix of the packed examples, the whole
\* of each included, and buffers with a count that is out of range or
\* larger than the data that follows
UnpackBufs ==
    UNION {{Take(t.b, n) : n \in 0 .. Min(MaxUnpack, Len(t.b))} : t \in packTestTable}
    \cup {<<fn, n, 0, 0>> : fn \in {RdCoils, RdHoldingRegs, Diag}, n \in {0, 3, 4, 251}}

\* v.Unpack(b) for a fresh value v and a buffer b that may be truncated or
\* malformed
UnpackBufCall ==
    /\ role = "codec"
    /\ val = NoCall
    /\ \E v \in FreshValues, b \in UnpackBufs :
          LET u == Unpack(v, b)
          IN  /\ val' = [op |-> "UnpackBuf", r |-> v, b |-> b]
              /\ out' = [op |-> "UnpackBuf", r |-> u.r, b |-> u.b, err |-> u.err]
    /\ UNCHANGED <<role, drv, ca, mu, thr, inc>>

CodecInit == role = "codec" /\ DrvIdle /\ LibIdle

CodecNext ==
    \/ XduReset
    \/ XduFill
    \/ XduConvert
    \/ XduConvertBack
    \/ SerPackCall
    \/ PackCall
    \/ UnpackCall
    \/ UnpackBufCall

CodecSpec == CodecInit /\ [][CodecNext]_vars

(***************************************************************************)
(* The sizers alone: a fresh resSizer or reqSizer is asked once about a    *)
(* prefix of a frame, for every function code and for length bytes at      *)
(* both ends of their range.  val is the call, out what size returned.     *)
(***************************************************************************)
\* the frames whose prefixes are sized: address 1, any function code in
\* byte 1, and length fields in bytes 2, 3, 6 and 10
SizerFrames ==
    { [k \in 1 .. MaxPrefix |->
          CASE k = 1 -> 1
            [] k = 2 -> fn
            [] k = 3 -> b2
            [] k = 4 -> b3
            [] k \in {7, 11} -> bn
            [] OTHER -> 0] :
      fn \in 0 .. 255, b2 \in {0, 3, 255}, b3 \in {0, 7}, bn \in {0, 4} }

SizerPrefixes == { Take(f, n) : f \in SizerFrames, n \in 0 .. MaxPrefix }

\* (&resSizer{}).size(p)
ResSizeCall ==
    /\ role = "sizers"
    /\ val = NoCall
    /\ \E p \in SizerPrefixes :
          /\ val' = [op |-> "resSizer.size", b |-> p]
          /\ out' = resSizer_size(0, p)
    /\ UNCHANGED <<role, drv, ca, mu, thr, inc>>

\* (&reqSizer{}).size(p)
ReqSizeCall ==
    /\ role = "sizers"
    /\ val = NoCall
    /\ \E p \in SizerPrefixes :
          /\ val' = [op |-> "reqSizer.size", b |-> p]
          /\ out' = reqSizer_size(0, p)
    /\ UNCHANGED <<role, drv, ca, mu, thr, inc>>

SzInit == role = "sizers" /\ DrvIdle /\ LibIdle

SzNext ==
    \/ ResSizeCall
    \/ ReqSizeCall

SzSpec == SzInit /\ [][SzNext]_vars

(***************************************************************************)
(* Properties                                                              *)
(***************************************************************************)
\* the positions of the calls of op ("Sync", "Transmit", "ReceiveRes") that
\* the SndRcv call in progress, or the last one, has made
Calls(op) == { i \in 1 .. Len(trace) : trace[i][1] = op }

\* the last call SndRcv made was op and returned e
LastCall(op, e) == Len(trace) > 0 /\ trace[Len(trace)] = <<op, e>>

\* SndRcv has returned
Returned == role = "master" /\ pc = "idle" /\ ret.err # "none"

Retryable == {"ErrFrame", "ErrCRC", "ErrTimeout"}

\* the frames of sent from the n-th on, back to back
Rest(n) == Flatten(SubSeq(sent, n, Len(sent)))

\* C1: one call of SndRcv transmits the request at most Retrans + 1 times,
\* whatever Sync, Transmit and ReceiveRes return.
C1_AtMostRetransPlusOne ==
    role = "master" => Cardinality(Calls("Transmit")) <= Retrans + 1

\* C1 witness: a call that used every attempt, with retransmissions
C1_Witness ==
    /\ Returned
    /\ Retrans >= 1
    /\ Cardinality(Calls("Transmit")) = Retrans + 1

\* C2: when ReceiveRes returns ErrFrame or ErrCRC, SndRcv clears synced and
\* one try is used up, so the next attempt, if one is left, begins with
\* Sync; when it returns ErrTimeout one try is used up and synced stays set,
\* so the next attempt begins with Transmit and no Sync.
C2_RetryAndSync ==
    (role = "master" /\ Len(trace) > 0 /\ trace[Len(trace)][1] = "ReceiveRes") =>
        LET e == trace[Len(trace)][2]
            used == Cardinality(Calls("ReceiveRes"))
        IN  /\ e \in {"ErrFrame", "ErrCRC"} =>
                /\ ~synced
                /\ try = Retrans + 1 - used
                /\ pc = IF try > 0 THEN "sync" ELSE "idle"
            /\ e = "ErrTimeout" =>
                /\ synced
                /\ try = Retrans + 1 - used
                /\ pc = IF try > 0 THEN "transmit" ELSE "idle"

\* C2 witness: one call in which a timeout was followed by a retransmission
\* with no Sync, and a CRC error by a Sync
C2_Witness ==
    /\ role = "master"
    /\ \E i, j \in 1 .. Len(trace) :
          /\ i + 1 < j
          /\ j < Len(trace)
          /\ trace[i] = <<"ReceiveRes", "ErrTimeout">>
          /\ trace[i + 1][1] = "Transmit"
          /\ trace[j] = <<"ReceiveRes", "ErrCRC">>
          /\ trace[j + 1][1] = "Sync"

\* C3: when Sync returns an error, or Transmit or ReceiveRes an error
\* wrapped in ErrIO, that call is the last one SndRcv makes: SndRcv returns
\* that very error, whatever tries are left, and after an I/O error the
\* master is not synced.
C3_NoRetryAfterFatal ==
    role = "master" =>
        \A i \in 1 .. Len(trace) :
            ((trace[i][1] = "Sync" /\ trace[i][2] # "nil") \/ IsErrIO(trace[i][2])) =>
                /\ i = Len(trace)
                /\ pc = "idle"
                /\ ret.err = trace[i][2]
                /\ IsErrIO(trace[i][2]) => ~synced

\* C3 witness: ReceiveRes returned an I/O error with tries left, and SndRcv
\* returned it
C3_Witness ==
    /\ Returned
    /\ LastCall("ReceiveRes", "ErrIO(EIO)")
    /\ try > 1
    /\ ret.err = "ErrIO(EIO)"

\* C4: when every attempt but the last ended in ErrTimeout and the last one
\* received a response whose CRC holds, SndRcv returns b with that response
\* appended and a nil error, having called Transmit once per attempt: k
\* calls for k - 1 timeouts, and k is at most Retrans + 1.
C4_SuccessAfterTimeouts ==
    (/\ role = "master"
     /\ LastCall("ReceiveRes", "nil")
     /\ \A i \in Calls("ReceiveRes") : i < Len(trace) => trace[i][2] = "ErrTimeout") =>
        LET k == Cardinality(Calls("ReceiveRes"))
        IN  /\ pc = "idle"
            /\ ret = [b |-> cb \o ResRdCoilsADU, err |-> "nil"]
            /\ Cardinality(Calls("Transmit")) = k
            /\ k <= Retrans + 1

\* C4 witness: Retrans = 1, the first response timed out and the second was
\* delivered: success after two Transmit calls
C4_Witness ==
    /\ Returned
    /\ Retrans = 1
    /\ ret.err = "nil"
    /\ trace = <<<<"Sync", "nil">>, <<"Transmit", "nil">>, <<"ReceiveRes", "ErrTimeout">>,
                 <<"Transmit", "nil">>, <<"ReceiveRes", "nil">>>>

\* C5: when each of the Retrans + 1 attempts of a call ended in ErrFrame,
\* ErrCRC or ErrTimeout, SndRcv returns the error of the last attempt.
C5_LastError ==
    (/\ Returned
     /\ Cardinality(Calls("ReceiveRes")) = Retrans + 1
     /\ Retrans + 1 > 0
     /\ \A i \in Calls("ReceiveRes") : trace[i][2] \in Retryable) =>
        /\ trace[Len(trace)][1] = "ReceiveRes"
        /\ ret.err = trace[Len(trace)][2]
        /\ ret.err # "nil"

\* C5 witness: three attempts that failed in three different ways; the last
\* one's error is returned
C5_Witness ==
    /\ Returned
    /\ Retrans = 2
    /\ Cardinality(Calls("ReceiveRes")) = 3
    /\ \E i, j \in Calls("ReceiveRes") :
          /\ i < j
          /\ j < Len(trace)
          /\ trace[i][2] = "ErrFrame"
          /\ trace[j][2] = "ErrCRC"
    /\ ret.err = "ErrTimeout"

\* C6 as claimed: a SndRcv call with a broadcast request (node 0) never reads
\* the byte stream, whether or not the master is synced when the call starts.
C6_BroadcastNeverReads ==
    (role = "master" /\ Len(req) > 0 /\ Node(req) = 0) => (~rdSync /\ ~rdRecv)

\* C6 amended: a SndRcv call with a broadcast request never calls ReceiveRes
\* and never reads the byte stream once it has called Transmit; it reads
\* only inside the Sync that comes before Transmit, made only when the master
\* is not synced.
C6_BroadcastReadsOnlyInSync ==
    (role = "master" /\ Len(req) > 0 /\ Node(req) = 0) =>
        /\ ~rdRecv
        /\ pc # "receive"
        /\ Calls("ReceiveRes") = {}
        /\ \A i \in Calls("Transmit") : i = Len(trace) /\ pc = "idle"
        /\ rdSync => (pc = "sync" \/ (Len(trace) > 0 /\ trace[1][1] = "Sync"))
        /\ pc = "sync" => ~synced

\* C6 witness: a broadcast sent by a synced master: transmitted, nothing read
C6_Witness ==
    /\ Returned
    /\ Node(req) = 0
    /\ trace = <<<<"Transmit", "nil">>>>
    /\ ret.err = "nil"
    /\ ~rdSync
    /\ ~rdRecv

\* C7: after a receive failed with ErrFrame or ErrCRC, the master calls
\* neither Transmit nor ReceiveRes, and the slave neither ReceiveReq nor
\* ReceiveRes, until a Sync has returned nil.
C7_ResyncBeforeUse ==
    (role \in {"master", "slave"} /\ needSync) =>
        (~synced /\ pc \notin {"transmit", "receive"})

\* C7 witness: the master, after a CRC error and a Sync that succeeded, is
\* about to transmit again
C7_Witness ==
    /\ role = "master"
    /\ pc = "transmit"
    /\ ~needSync
    /\ Len(trace) > 1
    /\ trace[Len(trace) - 1] = <<"ReceiveRes", "ErrCRC">>
    /\ trace[Len(trace)] = <<"Sync", "nil">>

\* C8: with packed frames back to back on the stream and every call made for
\* the direction of the next frame, a call takes no byte beyond its frame
\* while it runs, and returns b with exactly that frame appended, the frames
\* after it still on the stream in full; it fails only when the stream is
\* closed.
C8_BackToBack ==
    (role = "rcv" /\ clean /\ ncalls > 0) =>
        /\ pc \in {"receive", "idle"}
        /\ pc = "receive" =>
              /\ Len(rcv.fr) <= Len(sent[got + 1].adu)
              /\ rcv.fr \o wire = Rest(got + 1)
        /\ pc = "idle" =>
              \/ /\ ret.err = "nil"
                 /\ got > 0
                 /\ ret.b = cb \o sent[got].adu
                 /\ wire = Rest(got + 1)
              \/ closed /\ IsErrIO(ret.err)

\* C8 witness: a request and a response back to back, each received by the
\* matching call
C8_Witness ==
    /\ role = "rcv"
    /\ clean
    /\ pc = "idle"
    /\ got = 2
    /\ ret.err = "nil"
    /\ sent[1].dir = "req"
    /\ sent[2].dir = "res"

\* C9: on a closed stream a ReceiveReq, ReceiveRes or Sync in progress ends
\* at its next read with an error wrapped in ErrIO, never with an ADU or a
\* successful sync.
C9_ClosedStream ==
    [][(closed /\ pc \in {"receive", "sync"}) =>
          (pc' \in {"idle", "stopped"} /\ IsErrIO(ret'.err) /\ wire' = wire)]_vars

\* C9 witness: the second frame was asked for after the stream was closed
C9_Witness ==
    /\ role = "rcv"
    /\ closed
    /\ pc = "idle"
    /\ rdRecv
    /\ got = 1
    /\ ncalls = 2
    /\ ret.err = "ErrIO(EIO)"

\* C10: a SndRcv, ReceiveReq or ReceiveRes that returns an error returns the
\* caller's b as it was; b comes back longer only when a frame was received,
\* and then by just the bytes of that frame, the last ones taken off the
\* stream.
C10_BufferUnaffected ==
    /\ Returned =>
          IF LastCall("ReceiveRes", "nil")
          THEN ret.b = cb \o ResRdCoilsADU
          ELSE ret.b = cb
    /\ (role = "rcv" /\ pc = "idle" /\ rdRecv) =>
          IF ret.err = "nil"
          THEN LET taken == Len(Rest(1)) - Len(wire)
                   n == Len(ret.b) - Len(cb)
               IN  /\ n > 0
                   /\ n <= taken
                   /\ ret.b = cb \o SubSeq(Rest(1), taken - n + 1, taken)
          ELSE ret.b = cb

\* C10 witness: a frame was read in full, its CRC was wrong, and the b that
\* came back is the caller's, which was not empty
C10_Witness ==
    /\ role = "rcv"
    /\ pc = "idle"
    /\ rdRecv
    /\ ret.err = "ErrCRC"
    /\ Len(cb) > 0
    /\ ret.b = cb

\* the step is a probe read of a Sync called directly, and this Sync returns
SyncReturns == role = "rcv" /\ pc = "sync" /\ pc' = "idle"

\* C11 as claimed: Sync returns nil exactly when a probe read timed out; it
\* returns ErrSync only after a probe read that delivered bytes, with the
\* time since Sync began having reached SyncWaitMax; a probe read failing
\* with another error makes it return that error wrapped in ErrIO.
C11_ErrSyncAfterBytes ==
    [][SyncReturns =>
          /\ (ret'.err = "nil") <=> (rdErr' = "timeout")
          /\ (ret'.err = "ErrSync") =>
                (Len(wire') < Len(wire) /\ rcv'.elapsed >= SyncWaitMax)
          /\ (rdErr' \notin {"nil", "timeout"}) => IsErrIO(ret'.err)]_vars

\* What Sync does: ErrSync follows any probe read that returned no error,
\* whether or not it delivered a byte, once the time since Sync began is
\* beyond SyncWaitMax.
C11_SyncOutcome ==
    [][SyncReturns =>
          /\ (ret'.err = "nil") <=> (rdErr' = "timeout")
          /\ (ret'.err = "ErrSync") <=> (rdErr' = "nil")
          /\ (ret'.err = "ErrSync") => (rcv'.elapsed > SyncWaitMax)
          /\ (rdErr' \notin {"nil", "timeout"}) <=> IsErrIO(ret'.err)]_vars

\* Sync gave up after a probe read that delivered the last bytes on the line
C11_Witness ==
    /\ role = "rcv"
    /\ pc = "idle"
    /\ rdSync
    /\ ret.err = "ErrSync"
    /\ rdErr = "nil"
    /\ Len(sent) > 0
    /\ Len(wire) = 0

\* C12: Sync does not wait forever: while it is still probing, the time
\* since it began is at most SyncWaitMax, and it has returned no later than
\* one probe of SyncDelay after that; on a line that was never idle for
\* SyncDelay what it returns then is ErrSync.
C12_SyncBounded ==
    /\ pc = "sync" => (rcv.kind = "sync" /\ rcv.elapsed <= SyncWaitMax)
    /\ (role = "rcv" /\ pc = "idle" /\ rdSync) =>
          /\ rcv.elapsed <= SyncWaitMax + SyncDelay
          /\ (rcv.elapsed > SyncWaitMax /\ rdErr = "nil") => ret.err = "ErrSync"

\* C12 witness: SyncWaitMax was reached just as a probe returned; Sync gave up
\* one full probe later
C12_Witness ==
    /\ role = "rcv"
    /\ pc = "idle"
    /\ rdSync
    /\ ret.err = "ErrSync"
    /\ rcv.elapsed = SyncWaitMax + SyncDelay

\* C13: a sizer fed the prefixes a[:0], a[:1], ... of a packed frame a (a
\* request sizer for a request, a response sizer for a response) never
\* answers 'unsupported' (nor faults), never asks for more bytes than a has
\* left, and answers 0 exactly when the prefix is the whole of a.
C13_SizerProgress ==
    (role = "sizer" /\ rcv.kind # "none") =>
        /\ ret.err = "nil"
        /\ rcv.nrem <= Len(req) - Len(rcv.fr)
        /\ (rcv.nrem = 0) <=> (Len(rcv.fr) = Len(req))

\* C13 witness: a response carrying MaxData registers was fed to its end
C13_Witness ==
    /\ role = "sizer"
    /\ pc = "idle"
    /\ rcv.kind = "res"
    /\ rcv.fr = req
    /\ Len(req) = 5 + 2 * MaxData
    /\ rcv.nrem = 0

(***************************************************************************)
(* The slave.  In a pass of run's loop whose ReceiveReq returned, trace[1] *)
(* is that call and trace[1][3] the request frame as it was on the line.   *)
(***************************************************************************)
\* ReceiveReq returned the frame on the line with a nil error
SlvRequest == role = "slave" /\ Len(trace) > 0 /\ trace[1][1] = "ReceiveReq" /\ trace[1][2] = "nil"

\* the positions in trace of the calls of op
SlvCalls(op) == { i \in 1 .. Len(trace) : trace[i][1] = op }

\* the request frame f is addressed to this slave
Ours(f) == Node(f) # 0 /\ (NodeId = 0 \/ NodeId = Node(f))

\* ReceiveRes has been called in this pass
SlvReceiveRes == (pc = "receive" /\ rcv.kind = "res") \/ SlvCalls("ReceiveRes") # {}

\* C14 as claimed: whenever run (Start) has returned, the error it returned
\* is wrapped in ErrIO.
C14_OnlyErrIO ==
    (role = "slave" /\ pc = "stopped") => IsErrIO(ret.err)

\* C14 amended: whenever run (Start) has returned, the error it returned is
\* that of its last call, which is an error wrapped in ErrIO or the ErrSync
\* of a failed Sync; ErrFrame, ErrCRC and ErrTimeout never make it return.
C14_ErrIOOrErrSync ==
    (role = "slave" /\ pc = "stopped") =>
        /\ ret.err = trace[Len(trace)][2]
        /\ IsErrIO(ret.err) \/ (ret.err = "ErrSync" /\ trace[Len(trace)][1] = "Sync")

\* C14 witness: a frame error did not stop the slave, the resynchronisation
\* that followed failed and did
C14_Witness ==
    /\ role = "slave"
    /\ pc = "stopped"
    /\ ret.err = "ErrSync"
    /\ trace[1][1] = "ReceiveReq"
    /\ trace[1][2] \in {"ErrFrame", "ErrCRC"}

\* C15: after a CRC-valid request addressed to the slave for which the
\* handler returned a response, the slave has written exactly that response
\* once and is receiving the next request, without having called ReceiveRes.
C15_TransmitsResponse ==
    (SlvRequest /\ Ours(trace[1][3]) /\ pc # "crashed") =>
        \A i \in SlvCalls("handle") :
            trace[i][2] = "res" =>
               /\ Cardinality(SlvCalls("Write")) = 1
               /\ \A j \in SlvCalls("Write") : j > i /\ trace[j][3] = trace[i][3]
               /\ ~SlvReceiveRes

\* C16: after a CRC-valid non-broadcast request that is not addressed to the
\* slave, or that the handler declined, the slave has written nothing and
\* has called ReceiveRes.
C16_MonitorsResponse ==
    (SlvRequest /\ Node(trace[1][3]) # 0 /\ pc # "crashed"
       /\ (~Ours(trace[1][3]) \/ \E i \in SlvCalls("handle") : trace[i][2] = "nil")) =>
        /\ SlvCalls("Write") = {}
        /\ SlvReceiveRes

\* C17: after a CRC-valid broadcast request (address 0) the configured
\* handler has been called, nothing has been written, and the slave is
\* receiving the next request.
C17_Broadcast ==
    (SlvRequest /\ Node(trace[1][3]) = 0) =>
        /\ handler = "raw" => SlvCalls("HandlerRaw") # {}
        /\ handler = "std" => SlvCalls("Handler") # {}
        /\ SlvCalls("Write") = {}
        /\ ~SlvReceiveRes
        /\ pc = "receive" /\ rcv.kind = "req"

\* C18: a slave whose Handler and HandlerRaw are both nil only monitors:
\* handle returns nil for every request and nothing is ever written.
C18_MonitorOnly ==
    (role = "slave" /\ handler = "none") =>
        /\ SlvCalls("Write") = {}
        /\ \A i \in SlvCalls("handle") : trace[i][2] = "nil" /\ Len(trace[i][3]) = 0
        /\ SlvCalls("Handler") \cup SlvCalls("HandlerRaw") = {}

\* C18 witness: a slave without handlers has received a request
C18_Witness ==
    /\ SlvRequest
    /\ handler = "none"
    /\ trace[1][3] = ReqRdCoilsADU
    /\ SlvCalls("handle") # {}

\* a step in which a ReceiveReq or ReceiveRes of the slave fails with
\* ErrFrame or ErrCRC
SlvFrameError ==
    /\ role = "slave"
    /\ pc = "receive"
    /\ pc' # "crashed"
    /\ trace' # trace
    /\ \E i \in 1 .. Len(trace') :
          /\ trace'[i][1] \in {"ReceiveReq", "ReceiveRes"}
          /\ trace'[i][2] \in {"ErrFrame", "ErrCRC"}
          /\ i = Len(trace')

\* C19: each time a receive of the slave fails with ErrFrame or ErrCRC the
\* slave is unsynced, the CRC-error counter is one more than before, and the
\* loop goes on.
C19_CountsFrameErrors ==
    [][SlvFrameError => (~synced' /\ cnt' = cnt + 1 /\ pc' = "sync")]_vars

\* C20: the structured handler is called for every CRC-valid request that is
\* a broadcast or addressed to the slave, with the node id of the request
\* and the request value unpacked from the PDU of the frame (the bytes
\* between the address and the CRC).
C20_HandlerArguments ==
    (SlvRequest /\ handler = "std" /\ pc # "crashed"
       /\ (Node(trace[1][3]) = 0 \/ Ours(trace[1][3]))) =>
        LET f == trace[1][3]
            pdu == SubSeq(f, 2, Len(f) - 2)
        IN  /\ SlvCalls("Handler") # {}
            /\ \A i \in SlvCalls("Handler") :
                  /\ trace[i][3][1] = Node(f)
                  /\ NewReq(FnCode(f)).err = "nil"
                  /\ trace[i][3][2] = Unpack(NewReq(FnCode(f)).r, pdu).r

(***************************************************************************)
(* The drivers alone, with the one thing their scheduling guarantees once  *)
(* the stream is closed: the goroutine that runs SndRcv or the slave loop  *)
(* is not starved and a Read or Write on a closed stream does not block,   *)
(* so the call it has issued returns.  Nothing is assumed of an open line, *)
(* nor of the callers (Close, SndRcv, Start).                              *)
(***************************************************************************)
DrvInit == Init /\ role \in {"master", "slave"}

DrvNext ==
    \/ Close
    \/ SndRcv
    \/ MstSyncRead
    \/ MstTransmit
    \/ MstReceiveRead
    \/ SlvArrive
    \/ SlvStart
    \/ SlvSyncRead
    \/ SlvReceiveRead

\* one Read or Write of a driver
DrvStep ==
    \/ MstSyncRead
    \/ MstTransmit
    \/ MstReceiveRead
    \/ SlvSyncRead
    \/ SlvReceiveRead

DrvSpec == DrvInit /\ [][DrvNext]_vars /\ WF_vars(closed /\ DrvStep)

\* a driver is inside Sync, Transmit or a Receive call
DrvBusy == role \in {"master", "slave"} /\ pc \in {"sync", "transmit", "receive"}

\* C21: once the stream is closed, so that every read and write fails with
\* an I/O error, a slave loop that is running and a SndRcv that is in
\* progress eventually return, with an error that wraps ErrIO.
C21_CloseCancels ==
    (closed /\ DrvBusy) ~> (pc \in {"idle", "stopped"} /\ IsErrIO(ret.err))

\* C21 witness: the stream was closed under a driver, which has returned
\* with the I/O error
C21_Witness ==
    /\ closed
    /\ role \in {"master", "slave"}
    /\ pc \in {"idle", "stopped"}
    /\ IsErrIO(ret.err)
    /\ Len(trace) > 0

\* C22: Do packs req for the node, performs SndRcv and classifies the
\* response: it returns the exception as an error, or else the unpacked
\* response, allocated when res is nil.  Whatever the line does, a call of
\* Do then returns an error or a response, never neither.
C22_DoClassifies ==
    (role = "api" /\ val.op = "Do") => (out.err # "nil" \/ out.res # "nil")

\* C28: NewSerMasterStd called with a zero-valued configuration returns a
\* usable master with the default timing: response timeout 150 ms, frame
\* timeout 60 ms, sync delay equal to the frame timeout, inter-frame delay
\* 10 ms, sync-wait maximum 10 s.
C28_ZeroConfDefaults ==
    (role = "api" /\ val.op = "NewSerMasterStd" /\ val.cfg = ZeroConf) =>
        /\ out.panic = "none"
        /\ out.sm.Timeout = 150
        /\ out.sm.rcv.FrameTimeout = 60
        /\ out.sm.rcv.SyncDelay = out.sm.rcv.FrameTimeout
        /\ out.sm.trx.Delay = 10
        /\ out.sm.rcv.SyncWaitMax = 10000

\* the goroutines inside the body of a counters call, between Lock and Unlock
CntInside == {t \in Goroutines : thr[t].pc \in {"body", "store", "copy", "unlock"}}

\* C23: Inc, Rst, Get and GetAll each run atomically under the mutex while
\* other goroutines call them too: at most one call is inside its body; no
\* increment is lost (with no call inside, each counter equals the number
\* of Inc calls that returned since its last reset); Get returns the
\* counter and GetAll returns the whole slice as it is at the one instant
\* of the return.
C23_CountersAtomic ==
    role = "counters" =>
        /\ Cardinality(CntInside) <= 1
        /\ CntInside = {} => ca = inc
        /\ \A t \in Goroutines :
              /\ (thr[t].op = "GetAll" /\ thr[t].pc = "unlock") => thr[t].r = ca
              /\ (thr[t].op = "Get" /\ thr[t].pc = "unlock" /\ thr[t].cnt < Len(ca)) =>
                    thr[t].r = <<At(ca, thr[t].cnt)>>

\* C23 witness: GetAll is about to return a snapshot of counters that were
\* incremented, while the other goroutine waits for the mutex with an Inc
C23_Witness ==
    /\ role = "counters"
    /\ \E t, u \in Goroutines :
          /\ thr[t].op = "GetAll"
          /\ thr[t].pc = "unlock"
          /\ SumSeq(thr[t].r) >= 1
          /\ thr[u].op = "Inc"
          /\ thr[u].pc = "lock"

\* C24: after ResetSerADU and appending a serial ADU (address, PDU, CRC),
\* Ser2TcpADU(trans) makes Data a TCP ADU of length 7 + len(PDU) with
\* transaction id trans, protocol id 0, length field len(PDU) + 1 and the
\* serial address as unit id; the CRC is dropped and the PDU bytes stay
\* where they were in the buffer, unchanged.
C24_Ser2Tcp ==
    (role = "codec" /\ val.op = "Ser2TcpADU") =>
        LET d == Data(out.x)
            p == PDU(val.adu)
        IN  /\ out.x.panic = "none"
            /\ Len(d) = 7 + Len(p)
            /\ TcpADU_Trans(d) = val.trans
            /\ TcpADU_Proto(d) = 0
            /\ TcpADU_Len(d) = Len(p) + 1
            /\ TcpADU_Unit(d) = Node(val.adu)
            /\ TcpADU_PDU(d) = p
            /\ \A k \in val.x.lo + SerHeadSz + 1 .. val.x.hi - SerCRCSz :
                  out.x.buf[k] = val.x.buf[k]
            /\ val.x.lo + SerHeadSz = out.x.lo + TcpHeadSz

\* C24 witness: a serial ADU with a PDU of several bytes was converted, in
\* a buffer that held other bytes before, under a two-byte transaction id
C24_Witness ==
    /\ role = "codec"
    /\ val.op = "Ser2TcpADU"
    /\ Len(PDU(val.adu)) >= 5
    /\ val.trans = 4660
    /\ val.x.buf[1] = 255
    /\ out.x.panic = "none"

\* C25: after ResetTcpADU and appending a TCP ADU (7-byte MBAP header and
\* PDU), Tcp2SerADU makes Data the serial ADU of the unit-id byte, the PDU,
\* not moved, and the CRC-16/MODBUS appended low byte first, so that
\* CheckCRC holds of it.
C25_Tcp2Ser ==
    (role = "codec" /\ val.op = "Tcp2SerADU") =>
        LET d == Data(out.x)
            p == TcpADU_PDU(val.adu)
            c == Checksum(<<TcpADU_Unit(val.adu)>> \o p)
        IN  /\ out.x.panic = "none"
            /\ d = <<TcpADU_Unit(val.adu)>> \o p \o <<c % 256, c \div 256>>
            /\ CheckCRC(d)
            /\ \A k \in val.x.lo + TcpHeadSz + 1 .. val.x.hi : out.x.buf[k] = val.x.buf[k]
            /\ out.x.lo + SerHeadSz = val.x.lo + TcpHeadSz

\* C25 witness: a TCP ADU with a PDU of several bytes was converted, in a
\* buffer that held other bytes before
C25_Witness ==
    /\ role = "codec"
    /\ val.op = "Tcp2SerADU"
    /\ Len(TcpADU_PDU(val.adu)) >= 5
    /\ val.x.buf[XduBufSz] = 255
    /\ out.x.panic = "none"

\* the fields of a request or response value are in the range MODBUS allows
InRange(r) ==
    CASE r.t = "ResExc" -> r.Function \in 1 .. 127 /\ r.ExCode \in 0 .. 255
      [] r.t = "ReqRdInputs" -> r.Addr \in 0 .. 65535 /\ r.Num \in 1 .. 2000
      [] r.t = "ResRdInputs" -> Len(r.BitStat) \in 1 .. 250
      [] r.t = "ReqRdRegs" -> r.Addr \in 0 .. 65535 /\ r.Num \in 1 .. 125
      [] r.t = "ResRdRegs" -> Len(r.Val) \in 1 .. 125
      [] r.t = "ReqResWrReg" -> r.Addr \in 0 .. 65535 /\ r.Val \in 0 .. 65535
      [] r.t = "ReqResWrCoil" -> r.Addr \in 0 .. 65535

\* C26: for every supported request or response value r with a valid
\* payload and every node n, SerPack(nil, n, r) yields an ADU a with
\* a.Node() = n, a.PDU() = r.Pack(nil), a.FnCode() = r's function code
\* without the exception flag, and a.CheckCRC() true: the CRC is computed
\* over all bytes but the last two and stored low byte first.
C26_SerPack ==
    (role = "codec" /\ val.op = "SerPack" /\ InRange(val.r)) =>
        LET a == out.b
            c == Checksum(Take(a, Len(a) - 2))
        IN  /\ out.err = "nil"
            /\ Node(a) = val.node
            /\ PDU(a) = Pack(val.r, <<>>).b
            /\ FnCode(a) = ReqRes_FnCode(val.r)
            /\ CheckCRC(a)
            /\ At(a, Len(a) - 2) = c % 256
            /\ At(a, Len(a) - 1) = c \div 256

\* C26 witness: an exception response was packed for node 247
C26_Witness ==
    /\ role = "codec"
    /\ val.op = "SerPack"
    /\ val.r.t = "ResExc"
    /\ val.node = 247
    /\ out.err = "nil"
    /\ Len(out.b) = 5

\* C27: for every supported request or response value v with in-range
\* fields, unpacking pack(v) into the fresh value NewReq/NewRes returns
\* for the first packed byte yields a value equal to v and leaves no bytes
\* over; and pack(v) is the wire layout, as in the table of examples
\* (ReqRdInputs{Coils, 0x0013, 0x0013} packs to 01 00 13 00 13).
C27_PackUnpack ==
    /\ (role = "codec" /\ val.op = "Pack" /\ InRange(val.r)) =>
          /\ out.err = "nil"
          /\ \A t \in packTestTable : t.r = val.r => out.b = t.b
    /\ (role = "codec" /\ val.op = "Unpack" /\ InRange(val.r)) =>
          /\ out.err = "nil"
          /\ out.r = val.r
          /\ out.b = <<>>

\* C27 witness: a read-registers response of 125 registers went through
\* Pack and Unpack
C27_Witness ==
    /\ role = "codec"
    /\ val.op = "Unpack"
    /\ val.r.t = "ResRdRegs"
    /\ Len(val.r.Val) = 125
    /\ out.err = "nil"

\* a sizer is in use and has determined the total size of the frame
SizerKnows == rcv.kind \in {"req", "res"} /\ rcv.sz # 0

\* the sizer is called again, for a longer prefix of the same frame
LongerPrefix ==
    /\ rcv'.kind = rcv.kind
    /\ Len(rcv'.fr) > Len(rcv.fr)
    /\ Take(rcv'.fr, Len(rcv.fr)) = rcv.fr

\* C29: once a sizer has determined the total size of a frame, every later
\* call on a longer prefix of the same frame reports known = true and
\* remaining = total - len(prefix), with the same memoized total; and the
\* remaining count is never negative while the receiver feeds the sizer.
C29_SizerMemo ==
    /\ [](rcv.kind \in {"req", "res"} =>
            /\ rcv.nrem >= 0
            /\ rcv.sz # 0 => rcv.nrem = rcv.sz - Len(rcv.fr))
    /\ [][(SizerKnows /\ LongerPrefix) =>
            /\ size(rcv.kind, rcv.sz, rcv'.fr).ok
            /\ ret'.err # "ErrFrame"
            /\ role = "sizer" => ret'.err = "nil"
            /\ rcv'.sz = rcv.sz
            /\ rcv'.nrem = rcv.sz - Len(rcv'.fr)]_vars

\* C29 witness: the receiver, reading a response in pieces, knew the size
\* (8) after five bytes and asked the sizer again after the sixth
C29_Witness ==
    /\ role = "rcv"
    /\ pc = "receive"
    /\ rcv.kind = "res"
    /\ rcv.sz = 8
    /\ Len(rcv.fr) = 6
    /\ rcv.nrem = 2

\* a ReceiveReq or ReceiveRes call of the receiver used alone has returned
ReceiveReturned == role = "rcv" /\ pc = "idle" /\ rcv.kind \in {"req", "res"}

\* the five ways a receive call may end: rcv.fr holds every byte the reads
\* delivered, those delivered together with an error included
ReceiveClassified ==
    \/ /\ ret.err = "nil"
       /\ rcv.nrem = 0
       /\ CheckCRC(rcv.fr)
       /\ ret.b = cb \o rcv.fr
    \/ /\ ret.err = "ErrFrame"
       /\ ~size(rcv.kind, 0, rcv.fr).ok
    \/ /\ ret.err = "ErrCRC"
       /\ rcv.nrem = 0
       /\ ~CheckCRC(rcv.fr)
    \/ /\ ret.err = "ErrTimeout"
       /\ rdErr = "timeout"
       /\ rcv.nrem > 0
    \/ /\ IsErrIO(ret.err)
       /\ rdErr \notin {"nil", "timeout"}
       /\ ret.err = wErrIO(rdErr)
       /\ rcv.nrem > 0

\* C30: every ReceiveReq/ReceiveRes call ends in exactly one of: success
\* with a CRC-valid ADU; ErrFrame when the sizer reports an unsupported
\* function code; ErrCRC when a complete frame fails the CRC check;
\* ErrTimeout when a read times out before the frame is complete; an
\* ErrIO-wrapped error when a read fails otherwise before the frame is
\* complete.  The sizer is asked before the read error is looked at.  A
\* call that ends in a run-time panic ends in none of them.
C30_ReceiveOutcomes ==
    /\ ReceiveReturned => ReceiveClassified
    /\ rcv.kind \in {"req", "res"} => pc # "crashed"

\* a ReceiveReq or ReceiveRes call is between two reads
InReceive == pc = "receive" /\ rcv.kind \in {"req", "res"}

\* C31: in a receive the caller's deadline bounds the arrival of the first
\* byte of the frame and only that: the read deadline is now + FrameTimeout
\* exactly when bytes of the frame have been received.
C31_FrameTimeoutAfterBytes ==
    InReceive => (rdl = "frame" <=> Len(rcv.fr) > 0)

\* the total size a sizer's answer stands for: the prefix plus what remains
SizeTotal == Len(val.b) + out.remain

\* C32: the response sizer's total follows the size table for every prefix
\* that reaches the decision point: with the exception flag in byte 1 (from
\* 2 bytes on) 5; read coils, inputs, holding and input registers,
\* read/write registers, file records, comm log and slave id byte[2] + 5;
\* write single and multiple and get comm counter 8; mask write 10; read
\* exception status 5; read FIFO (byte[2]<<8 | byte[3]) + 5; any other
\* function code is reported as unsupported.
C32_ResSizeTable ==
    (role = "sizers" /\ val.op = "resSizer.size") =>
        LET b == val.b
            fn == At(b, 1)
        IN  /\ ~out.fault
            /\ (Len(b) >= 2 /\ HasExcFlag(fn)) => (out.ok /\ SizeTotal = 5)
            /\ (Len(b) >= 5 /\ ~HasExcFlag(fn)) =>
                  CASE fn \in {RdCoils, RdInputs, RdHoldingRegs, RdInputRegs, RdWrRegs,
                               RdFileRec, WrFileRec, GetComLog, SlaveId}
                          -> out.ok /\ SizeTotal = At(b, 2) + 5
                    [] fn \in {WrCoil, WrReg, WrCoils, WrRegs, GetComCnt}
                          -> out.ok /\ SizeTotal = 8
                    [] fn = MskWrReg -> out.ok /\ SizeTotal = 10
                    [] fn = RdExcStatus -> out.ok /\ SizeTotal = 5
                    [] fn = RdFIFO -> out.ok /\ SizeTotal = At(b, 2) * 256 + At(b, 3) + 5
                    [] OTHER -> ~out.ok

\* C32 witness: a read-FIFO response prefix of five bytes with the length
\* field 03 07 was sized
C32_Witness ==
    /\ role = "sizers"
    /\ val.op = "resSizer.size"
    /\ Len(val.b) = 5
    /\ At(val.b, 1) = RdFIFO
    /\ At(val.b, 2) = 3
    /\ At(val.b, 3) = 7
    /\ out.ok
    /\ out.remain = 775

\* C33: the request sizer never reads a byte beyond the prefix it was given:
\* for read/write registers it asks for more bytes until the prefix has at
\* least 11 bytes before it reads byte[10] (total byte[10] + 11 + 2), for
\* write multiple coils/registers until at least 7 before it reads byte[6],
\* and for file records until at least 3 before it reads byte[2].
C33_ReqSizerInBounds ==
    (role = "sizers" /\ val.op = "reqSizer.size") =>
        LET b == val.b
            fn == At(b, 1)
        IN  /\ ~out.fault
            /\ (Len(b) >= 2 /\ fn = RdWrRegs) =>
                  /\ out.ok
                  /\ SizeTotal = IF Len(b) < 11 THEN 11 ELSE At(b, 10) + 13
            /\ (Len(b) >= 2 /\ fn \in {WrCoils, WrRegs}) =>
                  /\ out.ok
                  /\ SizeTotal = IF Len(b) < 7 THEN 7 ELSE At(b, 6) + 9
            /\ (Len(b) >= 2 /\ fn \in {RdFileRec, WrFileRec}) =>
                  /\ out.ok
                  /\ SizeTotal = IF Len(b) < 3 THEN 3 ELSE At(b, 2) + 5

\* the sizer of the running receive announced a frame longer than the
\* receiver's buffer
Oversize == rcv.kind \in {"req", "res"} /\ rcv.sz > MaxSerADU

\* C34: a frame whose header implies a total size above the 256-byte
\* maximum serial ADU makes the receive fail with ErrFrame, and the
\* receiver never slices or indexes its buffer beyond its end: the call
\* does not go on reading and does not end in a run-time panic.
C34_OversizeIsErrFrame ==
    Oversize => (pc \notin {"receive", "crashed"} /\ needSync)

\* b is a packed value of the type of r with bytes missing at its end
Truncated(r, b) ==
    \E t \in packTestTable :
        /\ t.r.t = r.t
        /\ Len(b) < Len(t.b)
        /\ b = Take(t.b, Len(b))

\* C35: Unpack of any request or response type, given a truncated or
\* malformed buffer (too short for its fields, wrong function code,
\* out-of-range count), returns an unpack error with b returned unaffected;
\* it never faults by indexing or slicing past the end of the buffer.
C35_UnpackNeverFaults ==
    (role = "codec" /\ val.op = "UnpackBuf") =>
        /\ out.err # "panic"
        /\ out.err # "nil" => (out.err = "errUnpack" /\ out.b = val.b)
        /\ Truncated(val.r, val.b) => out.err = "errUnpack"

\* C36: SndRcv returns a nil error for a request that is not a broadcast
\* only if it called Transmit at least once and received a response ADU
\* whose CRC holds, which it appended to b; for every value of Retrans,
\* zero and negative values included.
C36_NilMeansResponse ==
    (Returned /\ ret.err = "nil" /\ Node(req) # 0) =>
        /\ Calls("Transmit") # {}
        /\ LastCall("ReceiveRes", "nil")
        /\ Len(ret.b) > Len(cb)
        /\ Take(ret.b, Len(cb)) = cb
        /\ CheckCRC(Drop(ret.b, Len(cb)))

\* b is exactly one serial ADU for node n: it fits a frame, its first byte
\* is n and its CRC holds
OneADU(b, n) == Len(b) \in 4 .. MaxSerADU /\ Node(b) = n /\ CheckCRC(b)

\* C37: the address the slave classifies a received request by is the first
\* byte of the frame just received, and the bytes it writes for a response
\* are exactly one CRC-valid serial ADU (the request's address, the response
\* PDU, the CRC) with no bytes before or after it, although the slave hands
\* its full-length request and response buffers to ReceiveReq and SerPack.
C37_SlaveBuffers ==
    (SlvRequest /\ pc # "crashed") =>
        LET f == trace[1][3]
        IN  /\ \A i \in SlvCalls("HandlerRaw") : Node(trace[i][3][1]) = Node(f)
            /\ \A i \in SlvCalls("Handler") : trace[i][3][1] = Node(f)
            /\ \A i \in SlvCalls("handle") :
                  (handler = "std" /\ trace[i][2] = "res") => OneADU(trace[i][3], Node(f))
            /\ \A i \in SlvCalls("Write") : OneADU(trace[i][3], Node(f))

\* the calls of the slave's handlers since the last request was received
HandlerCalls == SlvCalls("Handler") \cup SlvCalls("HandlerRaw")

\* C38: a request addressed to another node (address different from 0,
\* NodeId different from 0, address different from NodeId) is never passed
\* to the slave's Handler or HandlerRaw, and the handler is invoked at most
\* once per received request.
C38_OthersNotHandled ==
    SlvRequest =>
        LET f == trace[1][3]
        IN  /\ (Node(f) # 0 /\ NodeId # 0 /\ Node(f) # NodeId) => HandlerCalls = {}
            /\ Cardinality(HandlerCalls) <= 1

\* one pass of the read loop of a receive: a step taken inside the call
\* that is neither Close nor the arrival of bytes on the line
ReceivePass ==
    /\ InReceive
    /\ closed' = closed
    /\ Len(wire') <= Len(wire)

\* the call has ended with a result: it returned to the caller, which is
\* idle again or has gone on to its next call (a pass that loops again sets
\* the frame timeout, a new receive starts with the caller's deadline)
ReceiveEnded == pc' # "crashed" /\ (pc' # "receive" \/ rdl' # "frame")

\* C39: every ReceiveReq/ReceiveRes call terminates: each pass of the read
\* loop either adds at least one byte to a frame of at most 256 bytes or
\* ends the call with a result; a read that returns no bytes and no error
\* does not keep the loop running.
C39_ReceiveProgress ==
    [][ReceivePass =>
          \/ ReceiveEnded
          \/ Len(rcv.fr) < Len(rcv'.fr) /\ Len(rcv'.fr) <= MaxSerADU /\ pc' = "receive"]_vars

\* C40: the XDU conversions are inverse to each other: for a CRC-valid
\* serial ADU loaded after ResetSerADU, Ser2TcpADU(t) followed by Tcp2SerADU
\* restores exactly the original serial ADU; for a well-formed TCP ADU
\* loaded after ResetTcpADU (protocol 0, consistent length field),
\* Tcp2SerADU followed by Ser2TcpADU with the original transaction id
\* restores exactly the original TCP ADU.
C40_XduInverse ==
    /\ (role = "codec" /\ val.op = "Ser2Tcp2Ser" /\ CheckCRC(val.adu)) =>
          /\ out.x.panic = "none"
          /\ out.x.lo = TcpHeadSz - SerHeadSz
          /\ Data(out.x) = val.adu
    /\ (role = "codec" /\ val.op = "Tcp2Ser2Tcp"
          /\ TcpADU_Proto(val.adu) = 0
          /\ TcpADU_Len(val.adu) = Len(val.adu) - TcpHeadSz + 1
          /\ val.trans = TcpADU_Trans(val.adu)) =>
          /\ out.x.panic = "none"
          /\ out.x.lo = 0
          /\ Data(out.x) = val.adu

\* C40 witness: a TCP ADU with transaction id 0x1234 was converted to a
\* serial ADU and back with the same id
C40_Witness ==
    /\ role = "codec"
    /\ val.op = "Tcp2Ser2Tcp"
    /\ val.trans = 4660
    /\ TcpADU_Trans(val.adu) = 4660
    /\ Data(out.x) = val.adu

====
